---- MODULE Spec2Model ----
(***************************************************************************)
(* The DGA diagnostic engine of the transformer oil dashboard              *)
(* (src/app.py, with the older scoring variant of src/app1.py): the risk   *)
(* scorer, the Duval triangle classifier and its plot projection, the      *)
(* ternary ratio classifier, the KPI counts over a classified batch, the   *)
(* SampleName parser, and the Streamlit script that loads an uploaded      *)
(* file, stores the classified frame in the session and renders the        *)
(* filtered views of it.                                                   *)
(*                                                                         *)
(* Numbers.  The program computes on IEEE doubles.  The model computes on  *)
(* exact rationals [n, d] in lowest terms (d > 0): every input cell is a   *)
(* decimal read from CSV, every comparison is against a decimal literal,   *)
(* and the divisions are exact in the rationals.  Rounding of the doubles  *)
(* (an error below 1e-12 on the percentages) is outside the model.         *)
(*                                                                         *)
(* Text.  The program's Persian literals are written as ASCII tokens:      *)
(*   "mode5"                 'حالت 5'            (app.py:151)               *)
(*   "thermal_decomposition" 'تجزیه حرارتی'      (app.py:153)               *)
(*   "partial_discharge"     'تخلیه جزیی'        (app.py:155)               *)
(*   flags  "red" "yellow" "green"  for the three emoji (app.py:160-167)   *)
(*   levels "HIGH" "MEDIUM" "LOW"   for 'پرریسک' 'متوسط' 'کم‌ریسک'           *)
(* A notes cell is the set of marker phrases that occur in its text, so    *)
(* Python's substring test `m in s` is membership in that set.             *)
(***************************************************************************)
EXTENDS Integers, Sequences, FiniteSets, TLC

VARIABLES
    pc,       \* the step of the pipeline that ran last
    row,      \* the record being classified: column name -> cell
    duval,    \* what calculate_duval_triangle returned for row
    ternary,  \* what calculate_ternary_ratios returned for row
    points,   \* create_ternary_plot's points list for row
    zones,    \* create_ternary_plot's zone_labels list for row
    df,       \* the classified batch (its RiskScore/RiskFlag/RiskLevel columns)
    kpi,      \* the KPI cards and the risk pie rendered from df
    uploaded_file,  \* the value of the sidebar's file uploader in the script run
    session_state,  \* st.session_state: key -> value, the key "df" or none
    messages,       \* the st.error/st.success/... boxes the script run emitted
    trace,          \* the functions the script run called, in call order
    filters,        \* the values of the two selectboxes and the risk slider
    view            \* what the main content of the script run rendered

\* The state of the Streamlit session (the script of app.py:534-1108).
appvars == <<uploaded_file, session_state, messages, trace, filters, view>>

vars == <<pc, row, duval, ternary, points, zones, df, kpi, appvars>>

----------------------------------------------------------------------------
(* Bounds of the model. *)

\* Generated labels have at most MaxTokens whitespace-separated tokens.
MaxTokens == 4

\* An uploaded file has at most MaxRows data rows.
MaxRows == 3

\* Input cells lie on each threshold and Spread units either side of it.
Spread == 1
\* Gas concentrations of the grid rows range over 0..MaxGas.
MaxGas == 3
\* Rows of a batch.
MaxBatch == 3

----------------------------------------------------------------------------
(* Exact rational arithmetic. *)

Abs(x) == IF x < 0 THEN -x ELSE x

RECURSIVE GCD(_, _)
GCD(a, b) == IF b = 0 THEN a ELSE GCD(b, a % b)

\* n/d in lowest terms, for d > 0.
Rat(n, d) == LET g == GCD(Abs(n), d) IN [n |-> n \div g, d |-> d \div g]

\* The integer n.
Num(n) == [n |-> n, d |-> 1]

RAdd(a, b) == Rat(a.n * b.d + b.n * a.d, a.d * b.d)

RMul(a, b) == Rat(a.n * b.n, a.d * b.d)

\* a / b for b # 0.
RDiv(a, b) == IF b.n > 0 THEN Rat(a.n * b.d, a.d * b.n)
                         ELSE Rat(-(a.n * b.d), a.d * (-b.n))

RLt(a, b) == a.n * b.d < b.n * a.d

RGt(a, b) == RLt(b, a)

RGe(a, b) == ~RLt(a, b)

Min(a, b) == IF a < b THEN a ELSE b

----------------------------------------------------------------------------
(* Cells and rows. *)

\* float('nan'): an empty or unparseable cell after pd.to_numeric(errors='coerce').
NaN == [nan |-> TRUE]

\* Python's None.
None == [none |-> TRUE]

\* A notes cell whose text holds exactly the marker phrases of the set ms.
Text(ms) == [text |-> ms]

\* pd.notna
notna(v) == v # NaN /\ v # None

\* pd.isna
isna(v) == ~notna(v)

\* Series.get(col): None for a column the row does not have.
RowGet(r, col) == IF col \in DOMAIN r THEN r[col] ELSE None

\* df[col] = value, on one row.
SetCol(r, col, v) == IF col \in DOMAIN r THEN [r EXCEPT ![col] = v]
                                         ELSE (col :> v) @@ r

\* The row without the column col.
DropCol(r, col) == [c \in DOMAIN r \ {col} |-> r[c]]

----------------------------------------------------------------------------
(* Risk scorer. *)

\* app.py:118-125, the TCG bands.
TCGPoints(r) ==
    IF notna(RowGet(r, "TCG"))
    THEN IF RGt(r["TCG"], Num(3000)) THEN 40
         ELSE IF RGt(r["TCG"], Num(2000)) THEN 25
         ELSE IF RGt(r["TCG"], Num(1000)) THEN 10 ELSE 0
    ELSE 0

\* Faulty variant of TANPoints: the bands are tested with `if` instead of `elif`, so
\* the points of every matching band add up.
TANPoints_allbands(r) ==
    IF notna(RowGet(r, "TAN"))
    THEN (IF RGt(r["TAN"], Rat(2, 10)) THEN 25 ELSE 0)
       + (IF RGt(r["TAN"], Rat(1, 10)) THEN 15 ELSE 0)
    ELSE 0

\* app.py:127-132, the TAN bands.
TANPoints(r) ==
    IF notna(RowGet(r, "TAN"))
    THEN IF RGt(r["TAN"], Rat(2, 10)) THEN 25
         ELSE IF RGt(r["TAN"], Rat(1, 10)) THEN 15 ELSE 0
    ELSE 0

\* Faulty variant of BVPoints: the two bands carry each other's points, so a lower
\* breakdown voltage can score less.
BVPoints_swapped(r) ==
    IF notna(RowGet(r, "BreakdownVoltage"))
    THEN IF RLt(r["BreakdownVoltage"], Num(40)) THEN 15
         ELSE IF RLt(r["BreakdownVoltage"], Num(50)) THEN 25 ELSE 0
    ELSE 0

\* app.py:134-139, the breakdown voltage bands.
BVPoints(r) ==
    IF notna(RowGet(r, "BreakdownVoltage"))
    THEN IF RLt(r["BreakdownVoltage"], Num(40)) THEN 25
         ELSE IF RLt(r["BreakdownVoltage"], Num(50)) THEN 15 ELSE 0
    ELSE 0

\* app.py:141-146, the water content bands.
WCPoints(r) ==
    IF notna(RowGet(r, "WaterContents"))
    THEN IF RGt(r["WaterContents"], Num(40)) THEN 20
         ELSE IF RGt(r["WaterContents"], Num(30)) THEN 10 ELSE 0
    ELSE 0

\* Faulty variant of ASROGPoints: the markers are tested with `elif`, so only the
\* first marker found in the notes counts.
ASROGPoints_firstmarker(r) ==
    IF notna(RowGet(r, "ASROG"))
    THEN IF "mode5" \in r["ASROG"].text THEN 30
         ELSE IF "thermal_decomposition" \in r["ASROG"].text THEN 20
         ELSE IF "partial_discharge" \in r["ASROG"].text THEN 10 ELSE 0
    ELSE 0

\* app.py:148-156, the markers of the condition notes, each tested on its own.
ASROGPoints(r) ==
    IF notna(RowGet(r, "ASROG"))
    THEN (IF "mode5" \in r["ASROG"].text THEN 30 ELSE 0)
       + (IF "thermal_decomposition" \in r["ASROG"].text THEN 20 ELSE 0)
       + (IF "partial_discharge" \in r["ASROG"].text THEN 10 ELSE 0)
    ELSE 0

\* Faulty variant of calculate_risk_score: the final min(100, score) is missing.
calculate_risk_score_noclamp(r) ==
    TCGPoints(r) + TANPoints(r) + BVPoints(r) + WCPoints(r) + ASROGPoints(r)

\* app.py calculate_risk_score: the points of the five factors, each evaluated
\* unconditionally, added up and clamped at 100.
calculate_risk_score(r) ==
    Min(100, TCGPoints(r) + TANPoints(r) + BVPoints(r) + WCPoints(r)
             + ASROGPoints(r))

\* The columns app1.py's risk_score indexes with row[...].
Risk1Columns == {"TCG", "TAN", "BreakdownVoltage", "WaterContents", "ASROG"}

\* app1.py risk_score: row[col] raises KeyError for a column the row lacks;
\* str(row['ASROG']) of a NaN cell is 'nan', which holds no marker.
risk_score(r) ==
    IF ~(Risk1Columns \subseteq DOMAIN r) THEN [raised |-> "KeyError"]
    ELSE LET notes == IF r["ASROG"] = NaN THEN {} ELSE r["ASROG"].text
             s == (IF notna(r["TCG"]) /\ RGt(r["TCG"], Num(2000)) THEN 30 ELSE 0)
                + (IF notna(r["TAN"]) /\ RGt(r["TAN"], Rat(1, 10)) THEN 15 ELSE 0)
                + (IF notna(r["BreakdownVoltage"])
                      /\ RLt(r["BreakdownVoltage"], Num(50)) THEN 20 ELSE 0)
                + (IF notna(r["WaterContents"])
                      /\ RGt(r["WaterContents"], Num(30)) THEN 15 ELSE 0)
                + (IF "mode5" \in notes THEN 20 ELSE 0)
                + (IF "thermal_decomposition" \in notes THEN 10 ELSE 0)
         IN  [returned |-> Min(100, s)]

\* app.py get_risk_flag
get_risk_flag(score) ==
    IF score >= 60 THEN "red" ELSE IF score >= 35 THEN "yellow" ELSE "green"

\* Faulty variant of get_risk_level: the medium band starts above 35 (> for >=).
get_risk_level_gt35(score) ==
    IF score >= 60 THEN "HIGH" ELSE IF score > 35 THEN "MEDIUM" ELSE "LOW"

\* app.py get_risk_level
get_risk_level(score) ==
    IF score >= 60 THEN "HIGH" ELSE IF score >= 35 THEN "MEDIUM" ELSE "LOW"

\* app1.py flag_color
flag_color(risk) ==
    IF risk >= 60 THEN "red" ELSE IF risk >= 35 THEN "yellow" ELSE "green"

----------------------------------------------------------------------------
(* The records the scorer is run on. *)

Near(t) == {t - Spread, t, t + Spread}

Markers == {"mode5", "thermal_decomposition", "partial_discharge"}

RiskColumns == {"TCG", "TAN", "BreakdownVoltage", "WaterContents", "ASROG"}

\* Rows after load_and_parse's numeric coercion: every measurement is a number
\* around a threshold of the scorer or NaN, the notes are a text or NaN.
TCGCells == {Num(v) : v \in Near(1000) \cup Near(2000) \cup Near(3000)}

TANCells == {Rat(v, 1000) : v \in Near(100) \cup Near(200)}

BVCells == {Num(v) : v \in Near(40) \cup Near(50)}

WCCells == {Num(v) : v \in Near(30) \cup Near(40)}

NotesCells == {Text(ms) : ms \in SUBSET Markers}

GridRows ==
    [TCG : TCGCells \cup {NaN},
     TAN : TANCells \cup {NaN},
     BreakdownVoltage : BVCells \cup {NaN},
     WaterContents : WCCells \cup {NaN},
     ASROG : NotesCells \cup {NaN}]

\* The two scoring scenarios: every factor in its top band with the mode-5 and
\* thermal-decomposition markers, and every factor below its lowest band.
ScenarioA ==
    [TCG |-> Num(3500), TAN |-> Rat(25, 100), BreakdownVoltage |-> Num(35),
     WaterContents |-> Num(45), ASROG |-> Text({"mode5", "thermal_decomposition"})]

ScenarioB ==
    [TCG |-> Num(800), TAN |-> Rat(8, 100), BreakdownVoltage |-> Num(55),
     WaterContents |-> Num(25), ASROG |-> Text({})]

\* app.py:610-629, the built-in demo data (the columns the engine reads).
sample_data ==
    << [TCG |-> Num(1500), TAN |-> Rat(5, 100), BreakdownVoltage |-> Num(60),
        WaterContents |-> Num(20), ASROG |-> Text({}),
        hydrogen |-> Num(75), Methane |-> Num(19), Ethane |-> Num(0),
        Ethylene |-> Num(3), Acetylene |-> Num(0)],
       [TCG |-> Num(3500), TAN |-> Rat(25, 100), BreakdownVoltage |-> Num(35),
        WaterContents |-> Num(45), ASROG |-> Text({"mode5"}),
        hydrogen |-> Num(394), Methane |-> Num(1126), Ethane |-> Num(525),
        Ethylene |-> Num(1669), Acetylene |-> Num(8)],
       [TCG |-> Num(800), TAN |-> Rat(8, 100), BreakdownVoltage |-> Num(55),
        WaterContents |-> Num(25), ASROG |-> Text({"partial_discharge"}),
        hydrogen |-> Num(157), Methane |-> Num(10), Ethane |-> Num(1),
        Ethylene |-> Num(7), Acetylene |-> Num(3)],
       [TCG |-> Num(1004), TAN |-> Rat(3, 1000), BreakdownVoltage |-> Num(67),
        WaterContents |-> Num(9), ASROG |-> Text({"partial_discharge"}),
        hydrogen |-> Num(176), Methane |-> Num(35), Ethane |-> Num(20),
        Ethylene |-> Num(12), Acetylene |-> Num(0)],
       [TCG |-> Num(976), TAN |-> Rat(3, 1000), BreakdownVoltage |-> Num(66),
        WaterContents |-> Num(9), ASROG |-> Text({}),
        hydrogen |-> Num(23), Methane |-> Num(69), Ethane |-> Num(33),
        Ethylene |-> Num(280), Acetylene |-> Num(3)] >>

DemoRows == {sample_data[i] : i \in 1..Len(sample_data)}

\* Rows of a file that lacks some of the columns the scorer reads.
MissingColumnRows ==
    {[c \in S |-> r[c]] : r \in {ScenarioA, ScenarioB}, S \in SUBSET RiskColumns}

RiskRows == GridRows \cup {ScenarioA, ScenarioB} \cup DemoRows \cup MissingColumnRows

----------------------------------------------------------------------------
(* The risk scorer applied to one record: specification SpecRisk. *)

\* The value of a variable the specification at hand does not use.
Unused == <<>>

\* The session variables of a specification that runs one function only.
NoApp ==
    /\ uploaded_file = Unused /\ session_state = Unused /\ messages = Unused
    /\ trace = Unused /\ filters = Unused /\ view = Unused

InitRisk ==
    /\ pc = "parsed"
    /\ row \in RiskRows
    /\ duval = Unused /\ ternary = Unused /\ points = <<>> /\ zones = <<>>
    /\ df = <<>> /\ kpi = Unused
    /\ NoApp

\* app.py:576-578: RiskScore, RiskFlag and RiskLevel are added to the record.
ScoreRow ==
    /\ pc = "parsed"
    /\ LET score == calculate_risk_score(row)
       IN  row' = SetCol(SetCol(SetCol(row, "RiskScore", score),
                                "RiskFlag", get_risk_flag(score)),
                         "RiskLevel", get_risk_level(score))
    /\ pc' = "scored"
    /\ UNCHANGED <<duval, ternary, points, zones, df, kpi, appvars>>

\* app1.py:100-101: the older variant adds RiskScore and RiskFlag; a KeyError
\* of risk_score ends the run with the record as it was.
ScoreRow1 ==
    /\ pc = "parsed"
    /\ LET res == risk_score(row)
       IN  IF "raised" \in DOMAIN res
           THEN row' = row /\ pc' = "raised1"
           ELSE /\ row' = SetCol(SetCol(row, "RiskScore", res.returned),
                                 "RiskFlag", flag_color(res.returned))
                /\ pc' = "scored1"
    /\ UNCHANGED <<duval, ternary, points, zones, df, kpi, appvars>>

NextRisk == ScoreRow \/ ScoreRow1

SpecRisk == InitRisk /\ [][NextRisk]_vars


----------------------------------------------------------------------------
(* Claims about the risk scorer. *)

\* The record has a number (or a text) in column c.
Present(r, c) == c \in DOMAIN r /\ r[c] # NaN

\* The measurement columns of the point table.
NumericFactors == {"TCG", "TAN", "BreakdownVoltage", "WaterContents"}

\* The point table of the scorer, one set of bands <<threshold, points>> per
\* factor; a band matches a value above its threshold (below it, for the
\* breakdown voltage).
Bands(c) ==
    CASE c = "TCG" -> {<<Num(3000), 40>>, <<Num(2000), 25>>, <<Num(1000), 10>>}
      [] c = "TAN" -> {<<Rat(2, 10), 25>>, <<Rat(1, 10), 15>>}
      [] c = "BreakdownVoltage" -> {<<Num(40), 25>>, <<Num(50), 15>>}
      [] c = "WaterContents" -> {<<Num(40), 20>>, <<Num(30), 10>>}

\* The points of the highest matching band of factor c, 0 when no band matches
\* or the measurement is missing.
BandPoints(r, c) ==
    IF ~Present(r, c) THEN 0
    ELSE LET matching == {b \in Bands(c) :
                             IF c = "BreakdownVoltage" THEN RLt(r[c], b[1])
                                                       ELSE RGt(r[c], b[1])}
         IN  IF matching = {} THEN 0
             ELSE (CHOOSE b \in matching : \A o \in matching : b[2] >= o[2])[2]

\* The points of the markers in the notes of r, with p[m] points for marker m.
MarkerPoints(r, p) ==
    IF ~Present(r, "ASROG") THEN 0
    ELSE (IF "mode5" \in r["ASROG"].text THEN p["mode5"] ELSE 0)
       + (IF "thermal_decomposition" \in r["ASROG"].text
             THEN p["thermal_decomposition"] ELSE 0)
       + (IF "partial_discharge" \in r["ASROG"].text
             THEN p["partial_discharge"] ELSE 0)

\* The marker points of app.py, of the specification's table and of app1.py.
AppMarkerPoints ==
    [mode5 |-> 30, thermal_decomposition |-> 20, partial_discharge |-> 10]

TableMarkerPoints ==
    [mode5 |-> 30, thermal_decomposition |-> 10, partial_discharge |-> 10]

App1MarkerPoints ==
    [mode5 |-> 20, thermal_decomposition |-> 10, partial_discharge |-> 0]

\* The sum of the factor points of r, before the clamp.
FactorSum(r) ==
    BandPoints(r, "TCG") + BandPoints(r, "TAN") + BandPoints(r, "BreakdownVoltage")
    + BandPoints(r, "WaterContents") + MarkerPoints(r, AppMarkerPoints)

\* The input columns of a scored record.
Inputs(r) == [c \in DOMAIN r \ {"RiskScore", "RiskFlag", "RiskLevel"} |-> r[c]]

\* C1: every record scored by calculate_risk_score gets an integer score in
\* 0..100 equal to min(100, sum of its factor points); a record whose factor
\* points sum above 100 scores exactly 100 and is categorised HIGH; the score
\* of app1.py's risk_score lies in 0..100 too.
C1_ScoreIsClampedSum ==
    /\ pc = "scored" =>
          /\ row["RiskScore"] \in 0..100
          /\ row["RiskScore"] = Min(100, FactorSum(row))
          /\ FactorSum(row) > 100 =>
                /\ row["RiskScore"] = 100
                /\ row["RiskLevel"] = "HIGH"
                /\ row["RiskFlag"] = "red"
    /\ pc = "scored1" => row["RiskScore"] \in 0..100

\* Scenario A has been scored: its factor points sum to 160, it scores 100, HIGH.
C1_Witness ==
    /\ pc = "scored"
    /\ Inputs(row) = ScenarioA
    /\ FactorSum(row) = 160
    /\ row["RiskScore"] = 100
    /\ row["RiskLevel"] = "HIGH"

\* C6: each numeric factor contributes the points of its highest matching band
\* only, whatever the other factors are: below the clamp, the score of a record
\* exceeds the score of the same record without the measurement by exactly the
\* band points of the table; a missing measurement (NaN cell or absent column)
\* contributes 0; Scenario B scores 0.
C6_HighestBandOnly ==
    pc = "scored" =>
       /\ \A c \in NumericFactors :
             LET without == calculate_risk_score(SetCol(row, c, NaN))
             IN  /\ row["RiskScore"] < 100 =>
                       row["RiskScore"] - without = BandPoints(row, c)
                 /\ calculate_risk_score(DropCol(row, c)) = without
                 /\ ~Present(row, c) => row["RiskScore"] = without
       /\ Inputs(row) = ScenarioB => row["RiskScore"] = 0

\* A record whose TCG matches all three TCG bands and whose other factors match
\* none has been scored: it gets the 40 points of the highest band only.
C6_Witness ==
    /\ pc = "scored"
    /\ Present(row, "TCG")
    /\ RGt(row["TCG"], Num(3000))
    /\ row["RiskScore"] = 40

\* C7 as stated: below the clamp the notes add 30 points for the mode-5 marker,
\* 10 for the thermal-decomposition marker and 10 for the partial-discharge
\* marker, stacked.
C7_MarkerPointsAsStated ==
    (pc = "scored" /\ row["RiskScore"] < 100) =>
        row["RiskScore"] - calculate_risk_score(SetCol(row, "ASROG", NaN))
          = MarkerPoints(row, TableMarkerPoints)

\* C7 as amended: in app.py the notes add 30 points for the mode-5 marker, 20 for
\* the thermal-decomposition marker and 10 for the partial-discharge marker; in
\* app1.py they add 20 for mode-5, 10 for thermal decomposition and nothing for
\* partial discharge.  Each marker is tested on its own, so the points of
\* several markers stack (below the clamp), and null notes add 0.
C7_MarkerPoints ==
    /\ (pc = "scored" /\ row["RiskScore"] < 100) =>
          row["RiskScore"] - calculate_risk_score(SetCol(row, "ASROG", NaN))
            = MarkerPoints(row, AppMarkerPoints)
    /\ (pc = "scored" /\ ~Present(row, "ASROG")) =>
          row["RiskScore"] = calculate_risk_score(SetCol(row, "ASROG", Text({})))
    /\ (pc = "scored1" /\ row["RiskScore"] < 100) =>
          row["RiskScore"] - risk_score(SetCol(Inputs(row), "ASROG", NaN)).returned
            = MarkerPoints(row, App1MarkerPoints)

\* Notes holding all three markers have been scored below the clamp: the three
\* marker points stack to 60.
C7_Witness ==
    /\ pc = "scored"
    /\ Present(row, "ASROG")
    /\ row["ASROG"].text = Markers
    /\ row["RiskScore"] = 60

\* The cells of factor c that are at least as severe as the cell v.
MoreSevere(c, v) ==
    CASE c = "TCG" -> {w \in TCGCells : ~RLt(w, v)}
      [] c = "TAN" -> {w \in TANCells : ~RLt(w, v)}
      [] c = "WaterContents" -> {w \in WCCells : ~RLt(w, v)}
      [] c = "BreakdownVoltage" -> {w \in BVCells : ~RLt(v, w)}

\* C9: the score is monotonically non-decreasing in each severity factor taken
\* alone: replacing one measurement of a scored record by a higher TCG, a higher
\* TAN, a higher water content or a lower breakdown voltage, or adding a
\* recognised marker to its notes, never lowers the score; and the score never
\* exceeds 100.
C9_Monotone ==
    pc = "scored" =>
       /\ row["RiskScore"] <= 100
       /\ \A c \in NumericFactors :
             Present(row, c) =>
                \A w \in MoreSevere(c, row[c]) :
                   calculate_risk_score(SetCol(row, c, w)) >= row["RiskScore"]
       /\ Present(row, "ASROG") =>
             \A m \in Markers :
                calculate_risk_score(
                    SetCol(row, "ASROG", Text(row["ASROG"].text \cup {m})))
                  >= row["RiskScore"]

\* A record with breakdown voltage 50 has been scored, and the same record with
\* the lower voltage 49 scores strictly more.
C9_Witness ==
    /\ pc = "scored"
    /\ Present(row, "BreakdownVoltage")
    /\ row["BreakdownVoltage"] = Num(50)
    /\ calculate_risk_score(SetCol(row, "BreakdownVoltage", Num(49)))
         > row["RiskScore"]

----------------------------------------------------------------------------
(* The KPI cards over a classified batch: specification SpecKpi. *)

\* The scores calculate_risk_score gives to the records of RiskRows.
Scores == {calculate_risk_score(r) : r \in RiskRows}

InitKpi ==
    /\ pc = "classifying"
    /\ df = <<>>
    /\ kpi = Unused
    /\ NoApp
    /\ row = <<>> /\ duval = Unused /\ ternary = Unused
    /\ points = <<>> /\ zones = <<>>

\* app.py:576-578 on one more row of the batch: df.apply(calculate_risk_score)
\* and the two .apply calls on the RiskScore column.
ClassifyRow ==
    /\ pc = "classifying"
    /\ Len(df) < MaxBatch
    /\ \E score \in Scores :
          df' = Append(df, [RiskScore |-> score,
                            RiskFlag |-> get_risk_flag(score),
                            RiskLevel |-> get_risk_level(score)])
    /\ UNCHANGED <<pc, row, duval, ternary, points, zones, kpi, appvars>>

\* app.py:663-679: the KPI cards count the rows of the stored batch by RiskScore.
RenderKpi ==
    /\ pc = "classifying"
    /\ kpi' = [total_trans |-> Len(df),
               high_risk |->
                   Cardinality({i \in 1..Len(df) : df[i].RiskScore >= 60}),
               medium_risk |->
                   Cardinality({i \in 1..Len(df) :
                                   df[i].RiskScore >= 35 /\ df[i].RiskScore < 60})]
    /\ pc' = "rendered"
    /\ UNCHANGED <<row, duval, ternary, points, zones, df, appvars>>

NextKpi == ClassifyRow \/ RenderKpi

SpecKpi == InitKpi /\ [][NextKpi]_vars

\* The category a score belongs to by the mapping of the claim.
Category(score) ==
    CASE score >= 60 -> "HIGH"
      [] score >= 35 /\ score < 60 -> "MEDIUM"
      [] OTHER -> "LOW"

\* The flag of each category.
FlagOf == [HIGH |-> "red", MEDIUM |-> "yellow", LOW |-> "green"]

\* C8: every score in 0..100 maps to exactly one category (>= 60 HIGH, 35..59
\* MEDIUM, otherwise LOW); get_risk_flag and get_risk_level agree on it for
\* every row of a batch; and the HIGH and MEDIUM counts of the KPI cards plus
\* the number of LOW rows add up to the number of records.
C8_Categories ==
    /\ \A s \in 0..100 :
          /\ get_risk_level(s) = Category(s)
          /\ get_risk_flag(s) = FlagOf[Category(s)]
    /\ \A i \in 1..Len(df) :
          /\ df[i].RiskLevel = Category(df[i].RiskScore)
          /\ df[i].RiskFlag = FlagOf[df[i].RiskLevel]
    /\ pc = "rendered" =>
          LET level(l) == Cardinality({i \in 1..Len(df) : df[i].RiskLevel = l})
          IN  /\ kpi.high_risk + kpi.medium_risk + level("LOW") = kpi.total_trans
              /\ kpi.total_trans = Len(df)
              /\ kpi.high_risk = level("HIGH")
              /\ kpi.medium_risk = level("MEDIUM")

\* A batch with a row on each side of both category boundaries (scores 35 and
\* 60 among them) has been rendered.
C8_Witness ==
    /\ pc = "rendered"
    /\ Len(df) = 3
    /\ {df[i].RiskScore : i \in 1..3} = {30, 35, 60}
    /\ kpi.high_risk = 1 /\ kpi.medium_risk = 1

----------------------------------------------------------------------------
(* Duval triangle classifier.                                              *)
(* Zone tokens for the program's literals (app.py:216-242):                *)
(*   "INSUFFICIENT_DATA" 'داده ناکافی'                                      *)
(*   "PD"                'تخلیه جزئی (PD)'                                  *)
(*   "PD_with_arcing"    'تخلیه جزئی (PD) با قوس'                           *)
(*   "D1_corona"         'کرونا با تخلیه (D1)'                              *)
(*   "D2_high_energy"    'تخلیه با انرژی بالا (D2)'                         *)
(*   "D1_low_energy"     'تخلیه با انرژی کم (D1)'                           *)
(*   "T1_low_temp"       'گرمایش کم دما (T1) <300°C'                        *)
(*   "T2_mid_temp"       'گرمایش متوسط (T2) 300-700°C'                      *)
(*   "T3_high_temp"      'گرمایش زیاد دما (T3) >700°C'                      *)
(*   "DT_mixed"          'گرمایش و تخلیه ترکیبی (DT)'                       *)

\* The triple (None, None, None).
NoneTriple == <<None, None, None>>

\* app.py:183
DuvalGases == <<"Methane", "Ethane", "Ethylene", "Acetylene">>

\* The gases of the list gs that the row lacks or holds as NaN
\* (app.py:186 and 250, the list missing_gases).
missing_gases(r, gs) ==
    SelectSeq(gs, LAMBDA gas : gas \notin DOMAIN r \/ isna(r[gas]))

\* Faulty variant of calculate_duval_triangle: the total leaves ethane out, as in the
\* textbook Duval triangle.
calculate_duval_triangle_noethane(r) ==
    IF missing_gases(r, DuvalGases) # <<>> THEN NoneTriple
    ELSE LET CH4 == r["Methane"]
             C2H4 == r["Ethylene"]
             C2H2 == r["Acetylene"]
             total == RAdd(RAdd(CH4, C2H4), C2H2)
         IN  IF total = Num(0) THEN NoneTriple
             ELSE << RMul(RDiv(CH4, total), Num(100)),
                     RMul(RDiv(C2H4, total), Num(100)),
                     RMul(RDiv(C2H2, total), Num(100)) >>

\* Faulty variant of calculate_duval_triangle: a zero total yields zero percentages
\* instead of the None triple.
calculate_duval_triangle_zeros(r) ==
    IF missing_gases(r, DuvalGases) # <<>> THEN NoneTriple
    ELSE LET CH4 == r["Methane"]
             C2H6 == r["Ethane"]
             C2H4 == r["Ethylene"]
             C2H2 == r["Acetylene"]
             total == RAdd(RAdd(RAdd(CH4, C2H6), C2H4), C2H2)
         IN  IF total = Num(0) THEN <<Num(0), Num(0), Num(0)>>
             ELSE << RMul(RDiv(CH4, total), Num(100)),
                     RMul(RDiv(C2H4, total), Num(100)),
                     RMul(RDiv(C2H2, total), Num(100)) >>

\* app.py calculate_duval_triangle: the None triple for a missing gas or a zero
\* total, else the shares of methane, ethylene and acetylene in the total of
\* the four gases, in percent.  The cells are numbers or NaN after
\* load_and_parse, so float() raises nothing and the except branch is dead.
calculate_duval_triangle(r) ==
    IF missing_gases(r, DuvalGases) # <<>> THEN NoneTriple
    ELSE LET CH4 == r["Methane"]
             C2H6 == r["Ethane"]
             C2H4 == r["Ethylene"]
             C2H2 == r["Acetylene"]
             total == RAdd(RAdd(RAdd(CH4, C2H6), C2H4), C2H2)
         IN  IF total = Num(0) THEN NoneTriple
             ELSE << RMul(RDiv(CH4, total), Num(100)),
                     RMul(RDiv(C2H4, total), Num(100)),
                     RMul(RDiv(C2H2, total), Num(100)) >>

\* Faulty variant of duval_zone_detection: the first comparison is C2H2 <= 4.
duval_zone_detection_le4(CH4, C2H4, C2H2) ==
    IF CH4 = None \/ C2H4 = None \/ C2H2 = None THEN "INSUFFICIENT_DATA"
    ELSE IF ~RGt(C2H2, Num(4))
         THEN IF RLt(C2H4, Num(23))
              THEN IF RLt(CH4, Num(50)) THEN "PD" ELSE "PD_with_arcing"
              ELSE IF RLt(C2H4, Num(40)) THEN "D1_corona" ELSE "D2_high_energy"
         ELSE IF RLt(C2H2, Num(13)) THEN "D1_low_energy"
              ELSE IF RLt(C2H2, Num(29))
                   THEN IF RLt(C2H4, Num(13)) THEN "T1_low_temp" ELSE "T2_mid_temp"
                   ELSE IF RLt(C2H4, Num(15)) THEN "T3_high_temp" ELSE "DT_mixed"

\* Faulty variant of duval_zone_detection: the D1 and D2 results of the ethylene
\* threshold 40 are swapped.
duval_zone_detection_swapD(CH4, C2H4, C2H2) ==
    IF CH4 = None \/ C2H4 = None \/ C2H2 = None THEN "INSUFFICIENT_DATA"
    ELSE IF RLt(C2H2, Num(4))
         THEN IF RLt(C2H4, Num(23))
              THEN IF RLt(CH4, Num(50)) THEN "PD" ELSE "PD_with_arcing"
              ELSE IF RLt(C2H4, Num(40)) THEN "D2_high_energy" ELSE "D1_corona"
         ELSE IF RLt(C2H2, Num(13)) THEN "D1_low_energy"
              ELSE IF RLt(C2H2, Num(29))
                   THEN IF RLt(C2H4, Num(13)) THEN "T1_low_temp" ELSE "T2_mid_temp"
                   ELSE IF RLt(C2H4, Num(15)) THEN "T3_high_temp" ELSE "DT_mixed"

\* app.py duval_zone_detection
duval_zone_detection(CH4, C2H4, C2H2) ==
    IF CH4 = None \/ C2H4 = None \/ C2H2 = None THEN "INSUFFICIENT_DATA"
    ELSE IF RLt(C2H2, Num(4))
         THEN IF RLt(C2H4, Num(23))
              THEN IF RLt(CH4, Num(50)) THEN "PD" ELSE "PD_with_arcing"
              ELSE IF RLt(C2H4, Num(40)) THEN "D1_corona" ELSE "D2_high_energy"
         ELSE IF RLt(C2H2, Num(13)) THEN "D1_low_energy"
              ELSE IF RLt(C2H2, Num(29))
                   THEN IF RLt(C2H4, Num(13)) THEN "T1_low_temp" ELSE "T2_mid_temp"
                   ELSE IF RLt(C2H4, Num(15)) THEN "T3_high_temp" ELSE "DT_mixed"

\* app.py:302-303, the plot coordinates of a percentage triple:
\*   x = (C2H4 * 0.5 + CH4 * 0 + C2H2 * 1) / 100 * 100
\*   y = (C2H4 * 0.866 + CH4 * 0 + C2H2 * 0) / 100 * 86.6
duval_point(CH4, C2H4, C2H2) ==
    << RMul(RDiv(RAdd(RAdd(RMul(C2H4, Rat(5, 10)), RMul(CH4, Num(0))),
                      RMul(C2H2, Num(1))),
                 Num(100)),
            Num(100)),
       RMul(RDiv(RAdd(RAdd(RMul(C2H4, Rat(866, 1000)), RMul(CH4, Num(0))),
                      RMul(C2H2, Num(0))),
                 Num(100)),
            Rat(866, 10)) >>

\* app.py:296-305, the body of create_duval_triangle_plot's loop for one row:
\* the points the row contributes.
duval_plot_row(r) ==
    LET t == calculate_duval_triangle(r)
    IN  IF t[1] # None /\ t[2] # None /\ t[3] # None
        THEN << duval_point(t[1], t[2], t[3]) >>
        ELSE <<>>

----------------------------------------------------------------------------
(* The Duval classifier applied to one record: specification SpecDuval. *)

GasCells == {Num(v) : v \in 0..MaxGas}

DuvalColumns == {DuvalGases[i] : i \in 1..Len(DuvalGases)}

\* Rows with small gas concentrations or NaN in each of the four gas columns.
DuvalGridRows ==
    [Methane : GasCells \cup {NaN}, Ethane : GasCells \cup {NaN},
     Ethylene : GasCells \cup {NaN}, Acetylene : GasCells \cup {NaN}]

\* The percentages around the thresholds of duval_zone_detection.
AcetylenePoints == Near(4) \cup Near(13) \cup Near(29)

EthylenePoints == Near(13) \cup Near(15) \cup Near(23) \cup Near(40)

MethanePoints == Near(50)

\* Rows whose four gases total 100, so that each gas is its own percentage:
\* these put the percentages on and around every threshold.
ThresholdRows ==
    {[Methane |-> Num(a), Ethane |-> Num(100 - a - b - c),
      Ethylene |-> Num(b), Acetylene |-> Num(c)] :
        <<a, b, c>> \in {t \in MethanePoints \X EthylenePoints \X AcetylenePoints :
                            t[1] + t[2] + t[3] <= 100}}

\* Rows of a file that lacks some of the gas columns.
MissingGasColumnRows ==
    {[c \in S |-> r[c]] : r \in DemoRows, S \in SUBSET DuvalColumns}

DuvalRows ==
    DuvalGridRows \cup ThresholdRows \cup MissingGasColumnRows
    \cup {[c \in DuvalColumns |-> r[c]] : r \in DemoRows}

InitDuval ==
    /\ pc = "parsed"
    /\ row \in DuvalRows
    /\ duval = Unused /\ ternary = Unused /\ points = <<>> /\ zones = <<>>
    /\ df = <<>> /\ kpi = Unused
    /\ NoApp

\* app.py:585-596 on one record: the percentages and the zone are computed and
\* added to the record as the columns CH4%, C2H4%, C2H2% and DuvalZone.
ClassifyDuval ==
    /\ pc = "parsed"
    /\ LET t == calculate_duval_triangle(row)
           zone == duval_zone_detection(t[1], t[2], t[3])
       IN  /\ duval' = t
           /\ row' = SetCol(SetCol(SetCol(SetCol(row, "CH4%", t[1]),
                                          "C2H4%", t[2]),
                                   "C2H2%", t[3]),
                            "DuvalZone", zone)
    /\ pc' = "classified"
    /\ UNCHANGED <<ternary, points, zones, df, kpi, appvars>>

\* app.py:296-305 on one record of the classified batch: create_duval_triangle_plot
\* computes the percentages again and appends the record's point.
PlotDuval ==
    /\ pc = "classified"
    /\ points' = duval_plot_row(row)
    /\ pc' = "plotted"
    /\ UNCHANGED <<row, duval, ternary, zones, df, kpi, appvars>>

NextDuval == ClassifyDuval \/ PlotDuval

SpecDuval == InitDuval /\ [][NextDuval]_vars

----------------------------------------------------------------------------
(* Claims about the Duval classifier. *)

\* The record has a number in each of the four Duval gas columns.
Complete(r) == \A g \in DuvalColumns : Present(r, g)

\* CH4 + C2H6 + C2H4 + C2H2 of a complete record.
GasTotal(r) ==
    RAdd(RAdd(RAdd(r["Methane"], r["Ethane"]), r["Ethylene"]), r["Acetylene"])

\* The sum of a percentage triple.
Sum3(t) == RAdd(RAdd(t[1], t[2]), t[3])

\* The four gas cells of a record.
Gases(r) == [g \in DuvalColumns \cap DOMAIN r |-> r[g]]

\* C2 as stated: every record with complete gas data gets non-null Duval
\* percentages that sum to 100, and a zone other than INSUFFICIENT_DATA.
C2_CompleteSumsTo100AsStated ==
    (pc = "classified" /\ Complete(row)) =>
        /\ duval # NoneTriple
        /\ Sum3(duval) = Num(100)
        /\ row["DuvalZone"] # "INSUFFICIENT_DATA"

\* C2 as amended: every record with complete gas data and a non-zero total gets
\* non-null Duval percentages, each in [0, 100], that sum to
\* 100 * (CH4 + C2H4 + C2H2) / (CH4 + C2H6 + C2H4 + C2H2), which is 100 exactly
\* when ethane is 0, and a zone other than INSUFFICIENT_DATA.
C2_CompleteSumsToShare ==
    (pc = "classified" /\ Complete(row) /\ GasTotal(row) # Num(0)) =>
        /\ duval # NoneTriple
        /\ \A i \in 1..3 : RGe(duval[i], Num(0)) /\ ~RGt(duval[i], Num(100))
        /\ Sum3(duval)
             = RDiv(RMul(Num(100), RAdd(RAdd(row["Methane"], row["Ethylene"]),
                                        row["Acetylene"])),
                    GasTotal(row))
        /\ Sum3(duval) = Num(100) <=> row["Ethane"] = Num(0)
        /\ row["DuvalZone"] # "INSUFFICIENT_DATA"

\* A complete record with ethane has been classified: its three percentages
\* sum to less than 100.
C2_Witness ==
    /\ pc = "classified"
    /\ Complete(row)
    /\ RGt(row["Ethane"], Num(0))
    /\ duval # NoneTriple
    /\ RLt(Sum3(duval), Num(100))

\* C3: a record that lacks one of the four gases (column absent or cell NaN),
\* or whose four gases total 0, gets the None triple and the zone
\* INSUFFICIENT_DATA, never another zone.
C3_InsufficientData ==
    (pc = "classified"
     /\ IF Complete(row) THEN GasTotal(row) = Num(0) ELSE TRUE) =>
        /\ duval = NoneTriple
        /\ row["CH4%"] = None /\ row["C2H4%"] = None /\ row["C2H2%"] = None
        /\ row["DuvalZone"] = "INSUFFICIENT_DATA"

\* A record with all four gases present and totalling 0 has been classified
\* as INSUFFICIENT_DATA.
C3_Witness ==
    /\ pc = "classified"
    /\ Complete(row)
    /\ GasTotal(row) = Num(0)
    /\ row["DuvalZone"] = "INSUFFICIENT_DATA"

NineZones ==
    {"PD", "PD_with_arcing", "D1_corona", "D2_high_energy", "D1_low_energy",
     "T1_low_temp", "T2_mid_temp", "T3_high_temp", "DT_mixed"}

\* The region of each zone in the percentages (CH4%, C2H4%, C2H2%) = t, read
\* off the nested thresholds of the claim.
ZoneRegion(z, t) ==
    LET ch4 == t[1]
        c2h4 == t[2]
        c2h2 == t[3]
        lt(x, k) == RLt(x, Num(k))
    IN CASE z = "PD" -> lt(c2h2, 4) /\ lt(c2h4, 23) /\ lt(ch4, 50)
         [] z = "PD_with_arcing" -> lt(c2h2, 4) /\ lt(c2h4, 23) /\ ~lt(ch4, 50)
         [] z = "D1_corona" -> lt(c2h2, 4) /\ ~lt(c2h4, 23) /\ lt(c2h4, 40)
         [] z = "D2_high_energy" -> lt(c2h2, 4) /\ ~lt(c2h4, 40)
         [] z = "D1_low_energy" -> ~lt(c2h2, 4) /\ lt(c2h2, 13)
         [] z = "T1_low_temp" -> ~lt(c2h2, 13) /\ lt(c2h2, 29) /\ lt(c2h4, 13)
         [] z = "T2_mid_temp" -> ~lt(c2h2, 13) /\ lt(c2h2, 29) /\ ~lt(c2h4, 13)
         [] z = "T3_high_temp" -> ~lt(c2h2, 29) /\ lt(c2h4, 15)
         [] z = "DT_mixed" -> ~lt(c2h2, 29) /\ ~lt(c2h4, 15)

\* C4: for every non-null percentage triple the zone is exactly one of the nine
\* zones, the one whose region of the nested thresholds holds the triple; the
\* comparisons are strict, so a value on a threshold is in the higher branch.
C4_ZoneByThresholds ==
    (pc = "classified" /\ duval # NoneTriple) =>
        /\ row["DuvalZone"] \in NineZones
        /\ \A z \in NineZones : (row["DuvalZone"] = z) <=> ZoneRegion(z, duval)

\* A record whose C2H2% is exactly 4 has been classified: it falls in the
\* higher branch, D1_low_energy.
C4_Witness ==
    /\ pc = "classified"
    /\ duval # NoneTriple
    /\ duval[3] = Num(4)
    /\ row["DuvalZone"] = "D1_low_energy"

\* The gases of scenario C.
ScenarioC ==
    [Methane |-> Num(1126), Ethane |-> Num(525), Ethylene |-> Num(1669),
     Acetylene |-> Num(8)]

\* The rational x in hundredths, rounded to the nearest.
Round2(x) == (200 * x.n + x.d) \div (2 * x.d)

\* C5 as stated: the record of scenario C gets the percentages 33.84, 50.15 and
\* 0.24 (to two decimals) and the zone D1_corona.
C5_ScenarioCAsStated ==
    (pc = "classified" /\ Gases(row) = ScenarioC) =>
        /\ duval # NoneTriple
        /\ <<Round2(duval[1]), Round2(duval[2]), Round2(duval[3])>>
             = <<3384, 5015, 24>>
        /\ row["DuvalZone"] = "D1_corona"

\* C5 as amended: the record of scenario C (total 3328, the second row of the
\* demo data) gets the percentages 33.83, 50.15 and 0.24 (to two decimals) and,
\* its C2H4% being at least 40, the zone D2_high_energy.
C5_ScenarioC ==
    /\ Gases(sample_data[2]) = ScenarioC
    /\ GasTotal(ScenarioC) = Num(3328)
    /\ (pc = "classified" /\ Gases(row) = ScenarioC) =>
          /\ duval # NoneTriple
          /\ <<Round2(duval[1]), Round2(duval[2]), Round2(duval[3])>>
               = <<3383, 5015, 24>>
          /\ RLt(duval[3], Num(4)) /\ RGe(duval[2], Num(40))
          /\ row["DuvalZone"] = "D2_high_energy"

\* The record of scenario C has been classified.
C5_Witness ==
    /\ pc = "classified"
    /\ Gases(row) = ScenarioC
    /\ row["DuvalZone"] = "D2_high_energy"

----------------------------------------------------------------------------
(* Ternary ratio classifier.                                               *)
(* Zone tokens for the program's literals (app.py:449-457):                *)
(*   "unclassified"                   'ناشناخته'                            *)
(*   "partial_discharge_dominant"     'تخلیه جزئی'                          *)
(*   "thermal_dominant"               'گرمایش'                              *)
(*   "high_energy_discharge_dominant" 'تخلیه با انرژی بالا'                 *)
(*   "mixed_discharge_thermal"        'ترکیبی (تخلیه/گرمایش)'               *)

\* app.py:248
TernaryGases == <<"hydrogen", "Methane", "Ethane", "Ethylene", "Acetylene">>

\* app.py:261-262
safe_divide(a, b) == IF b # Num(0) THEN RDiv(a, b) ELSE Num(0)

\* The literal 33.33 of app.py:282.
Fallback == Rat(3333, 100)

\* Faulty variant of calculate_ternary_ratios: a zero ratio sum yields the None triple
\* instead of the fallback (33.33, 33.33, 33.33).
calculate_ternary_ratios_nonefallback(r) ==
    IF missing_gases(r, TernaryGases) # <<>> THEN NoneTriple
    ELSE LET H2 == r["hydrogen"]
             CH4 == r["Methane"]
             C2H6 == r["Ethane"]
             C2H4 == r["Ethylene"]
             C2H2 == r["Acetylene"]
             ratio1 == IF RGt(CH4, Num(0)) THEN safe_divide(H2, CH4) ELSE Num(0)
             ratio2 == IF RGt(C2H6, Num(0)) THEN safe_divide(C2H4, C2H6) ELSE Num(0)
             ratio3 == IF RGt(C2H4, Num(0)) THEN safe_divide(C2H2, C2H4) ELSE Num(0)
             total == RAdd(RAdd(ratio1, ratio2), ratio3)
         IN  IF RGt(total, Num(0))
             THEN << RMul(RDiv(ratio1, total), Num(100)),
                     RMul(RDiv(ratio2, total), Num(100)),
                     RMul(RDiv(ratio3, total), Num(100)) >>
             ELSE NoneTriple

\* Faulty variant of calculate_ternary_ratios: one guard for the three divisions,
\* so a single zero denominator zeroes all three ratios.
calculate_ternary_ratios_jointguard(r) ==
    IF missing_gases(r, TernaryGases) # <<>> THEN NoneTriple
    ELSE LET H2 == r["hydrogen"]
             CH4 == r["Methane"]
             C2H6 == r["Ethane"]
             C2H4 == r["Ethylene"]
             C2H2 == r["Acetylene"]
             ok == RGt(CH4, Num(0)) /\ RGt(C2H6, Num(0)) /\ RGt(C2H4, Num(0))
             ratio1 == IF ok THEN safe_divide(H2, CH4) ELSE Num(0)
             ratio2 == IF ok THEN safe_divide(C2H4, C2H6) ELSE Num(0)
             ratio3 == IF ok THEN safe_divide(C2H2, C2H4) ELSE Num(0)
             total == RAdd(RAdd(ratio1, ratio2), ratio3)
         IN  IF RGt(total, Num(0))
             THEN << RMul(RDiv(ratio1, total), Num(100)),
                     RMul(RDiv(ratio2, total), Num(100)),
                     RMul(RDiv(ratio3, total), Num(100)) >>
             ELSE <<Fallback, Fallback, Fallback>>

\* app.py calculate_ternary_ratios: the None triple for a missing gas, else the
\* three ratios H2/CH4, C2H4/C2H6 and C2H2/C2H4 (0 for a denominator that is
\* not positive) as percentages of their sum, or (33.33, 33.33, 33.33) when
\* the sum is not positive.  The cells are numbers or NaN after
\* load_and_parse, so float() raises nothing and the except branch is dead.
calculate_ternary_ratios(r) ==
    IF missing_gases(r, TernaryGases) # <<>> THEN NoneTriple
    ELSE LET H2 == r["hydrogen"]
             CH4 == r["Methane"]
             C2H6 == r["Ethane"]
             C2H4 == r["Ethylene"]
             C2H2 == r["Acetylene"]
             ratio1 == IF RGt(CH4, Num(0)) THEN safe_divide(H2, CH4) ELSE Num(0)
             ratio2 == IF RGt(C2H6, Num(0)) THEN safe_divide(C2H4, C2H6) ELSE Num(0)
             ratio3 == IF RGt(C2H4, Num(0)) THEN safe_divide(C2H2, C2H4) ELSE Num(0)
             total == RAdd(RAdd(ratio1, ratio2), ratio3)
         IN  IF RGt(total, Num(0))
             THEN << RMul(RDiv(ratio1, total), Num(100)),
                     RMul(RDiv(ratio2, total), Num(100)),
                     RMul(RDiv(ratio3, total), Num(100)) >>
             ELSE <<Fallback, Fallback, Fallback>>

\* Faulty variant of ternary_zone: the dominance tests are >= 60 instead of > 60.
ternary_zone_ge60(norm_ratio1, norm_ratio2, norm_ratio3) ==
    IF RGe(norm_ratio1, Num(60)) THEN "partial_discharge_dominant"
    ELSE IF RGe(norm_ratio2, Num(60)) THEN "thermal_dominant"
    ELSE IF RGe(norm_ratio3, Num(60)) THEN "high_energy_discharge_dominant"
    ELSE IF RGt(norm_ratio1, Num(40)) /\ RGt(norm_ratio2, Num(40))
         THEN "mixed_discharge_thermal"
    ELSE "unclassified"

\* app.py:449-457, the zone of a normalised triple.
ternary_zone(norm_ratio1, norm_ratio2, norm_ratio3) ==
    IF RGt(norm_ratio1, Num(60)) THEN "partial_discharge_dominant"
    ELSE IF RGt(norm_ratio2, Num(60)) THEN "thermal_dominant"
    ELSE IF RGt(norm_ratio3, Num(60)) THEN "high_energy_discharge_dominant"
    ELSE IF RGt(norm_ratio1, Num(40)) /\ RGt(norm_ratio2, Num(40))
         THEN "mixed_discharge_thermal"
    ELSE "unclassified"

\* Faulty variant of ternary_plot_row: no second normalisation, the triple of
\* calculate_ternary_ratios is plotted as it is.
ternary_plot_row_singlepass(r) ==
    LET t == calculate_ternary_ratios(r)
    IN  IF t[1] # None /\ t[2] # None /\ t[3] # None
        THEN IF RGt(Sum3(t), Num(0))
             THEN << <<t>>, <<ternary_zone(t[1], t[2], t[3])>> >>
             ELSE << <<>>, <<>> >>
        ELSE << <<>>, <<>> >>

\* app.py:436-459, the body of create_ternary_plot's loop for one row: the
\* <<points, zone_labels>> the row contributes.
ternary_plot_row(r) ==
    LET t == calculate_ternary_ratios(r)
    IN  IF t[1] # None /\ t[2] # None /\ t[3] # None
        THEN LET total == Sum3(t)
             IN  IF RGt(total, Num(0))
                 THEN LET norm == << RMul(RDiv(t[1], total), Num(100)),
                                     RMul(RDiv(t[2], total), Num(100)),
                                     RMul(RDiv(t[3], total), Num(100)) >>
                      IN  << <<norm>>, <<ternary_zone(norm[1], norm[2], norm[3])>> >>
                 ELSE << <<>>, <<>> >>
        ELSE << <<>>, <<>> >>

----------------------------------------------------------------------------
(* The ternary classifier applied to one record: specification SpecTernary. *)

TernaryColumns == {TernaryGases[i] : i \in 1..Len(TernaryGases)}

\* Rows with small gas concentrations or NaN in each of the five gas columns.
TernaryGridRows ==
    [hydrogen : GasCells \cup {NaN}, Methane : GasCells \cup {NaN},
     Ethane : GasCells \cup {NaN}, Ethylene : GasCells \cup {NaN},
     Acetylene : GasCells \cup {NaN}]

\* Rows of a file that lacks some of the gas columns.
MissingTernaryColumnRows ==
    {[c \in S |-> Num(1)] : S \in SUBSET TernaryColumns}

TernaryRows == TernaryGridRows \cup MissingTernaryColumnRows

InitTernary ==
    /\ pc = "parsed"
    /\ row \in TernaryRows
    /\ duval = Unused /\ ternary = Unused /\ points = <<>> /\ zones = <<>>
    /\ df = <<>> /\ kpi = Unused
    /\ NoApp

\* app.py:435-459 on one record: create_ternary_plot computes the ratios,
\* normalises them again and appends the point and its zone.
PlotTernary ==
    /\ pc = "parsed"
    /\ ternary' = calculate_ternary_ratios(row)
    /\ points' = ternary_plot_row(row)[1]
    /\ zones' = ternary_plot_row(row)[2]
    /\ pc' = "plotted"
    /\ UNCHANGED <<row, duval, df, kpi, appvars>>

NextTernary == PlotTernary

SpecTernary == InitTernary /\ [][NextTernary]_vars

----------------------------------------------------------------------------
(* Claims about the ternary classifier. *)

\* The record has a number in each of the five ternary gas columns.
TernaryComplete(r) == \A g \in TernaryColumns : Present(r, g)

\* All five ternary gases of the record are 0.
AllZero(r) == \A g \in TernaryColumns : Present(r, g) /\ r[g] = Num(0)

\* C10 as stated: a record that lacks one of the five gases, and also a record
\* whose five gases are all zero, gets the None triple, and no ternary zone is
\* computed for it.
C10_NullTripleAsStated ==
    (pc = "plotted" /\ (~TernaryComplete(row) \/ AllZero(row))) =>
        /\ ternary = NoneTriple
        /\ points = <<>>
        /\ zones = <<>>

\* C10 as amended: a record that lacks one of the five gases gets the None
\* triple, and no ternary point or zone is computed for it; a record whose five
\* gases are all present and zero gets the fallback (33.33, 33.33, 33.33), not
\* the None triple, and is plotted with the zone unclassified.
C10_NullTripleOnlyWhenMissing ==
    /\ (pc = "plotted" /\ ~TernaryComplete(row)) =>
          /\ ternary = NoneTriple
          /\ points = <<>>
          /\ zones = <<>>
    /\ (pc = "plotted" /\ AllZero(row)) =>
          /\ ternary = <<Fallback, Fallback, Fallback>>
          /\ Len(points) = 1
          /\ zones = <<"unclassified">>

\* A record with all five gases zero has been plotted with the fallback triple.
C10_Witness ==
    /\ pc = "plotted"
    /\ AllZero(row)
    /\ ternary = <<Fallback, Fallback, Fallback>>
    /\ zones = <<"unclassified">>

\* The ratio a / b of two gases, 0 when the denominator b is 0.
GuardedRatio(a, b) == IF b = Num(0) THEN Num(0) ELSE RDiv(a, b)

\* The three diagnostic ratios H2/CH4, C2H4/C2H6, C2H2/C2H4 of a complete record.
RawRatios(r) ==
    << GuardedRatio(r["hydrogen"], r["Methane"]),
       GuardedRatio(r["Ethylene"], r["Ethane"]),
       GuardedRatio(r["Acetylene"], r["Ethylene"]) >>

\* C11: for a record with all five ternary gases present and non-negative,
\* with each ratio 0 exactly when its own denominator is 0: when the three
\* ratios sum to 0 calculate_ternary_ratios returns exactly
\* (33.33, 33.33, 33.33), never the None triple; otherwise it returns each
\* ratio as a percentage of the sum, and the three percentages sum to 100.
C11_RatiosOrFallback ==
    (pc = "plotted" /\ TernaryComplete(row)) =>
        LET q == RawRatios(row)
            total == Sum3(q)
        IN  /\ ternary # NoneTriple
            /\ total = Num(0) => ternary = <<Fallback, Fallback, Fallback>>
            /\ total # Num(0) =>
                  /\ ternary = << RDiv(RMul(Num(100), q[1]), total),
                                  RDiv(RMul(Num(100), q[2]), total),
                                  RDiv(RMul(Num(100), q[3]), total) >>
                  /\ Sum3(ternary) = Num(100)

\* A complete record with a zero methane denominator and a non-zero ratio sum
\* has got percentages that sum to 100 with a first percentage of 0.
C11_Witness ==
    /\ pc = "plotted"
    /\ TernaryComplete(row)
    /\ row["Methane"] = Num(0) /\ row["hydrogen"] # Num(0)
    /\ ternary # <<Fallback, Fallback, Fallback>>
    /\ ternary[1] = Num(0)
    /\ Sum3(ternary) = Num(100)

\* C12: the zone of every plotted triple (p1, p2, p3) follows the ordered
\* tests p1 > 60, p2 > 60, p3 > 60, then p1 > 40 and p2 > 40, else
\* unclassified; the triple sums to 100, so at most one of the first three
\* tests holds, exactly one zone is assigned, and the fallback triple of a
\* zero ratio sum is unclassified.
C12_ZoneInOrder ==
    (pc = "plotted" /\ points # <<>>) =>
        LET p == points[1]
            dom(i) == RGt(p[i], Num(60))
        IN  /\ Len(points) = 1 /\ Len(zones) = 1
            /\ Sum3(p) = Num(100)
            /\ Cardinality({i \in 1..3 : dom(i)}) <= 1
            /\ dom(1) <=> zones[1] = "partial_discharge_dominant"
            /\ dom(2) <=> zones[1] = "thermal_dominant"
            /\ dom(3) <=> zones[1] = "high_energy_discharge_dominant"
            /\ (RGt(p[1], Num(40)) /\ RGt(p[2], Num(40)))
                  <=> zones[1] = "mixed_discharge_thermal"
            /\ (\A i \in 1..3 : ~dom(i)) /\ ~(RGt(p[1], Num(40)) /\ RGt(p[2], Num(40)))
                  <=> zones[1] = "unclassified"
            /\ ternary = <<Fallback, Fallback, Fallback>> => zones[1] = "unclassified"

\* The triple (50, 50, 0), with both p1 and p2 above 40 and none above 60, has
\* been plotted as mixed.
C12_Witness ==
    /\ pc = "plotted"
    /\ Len(points) = 1
    /\ points[1][1] = Num(50) /\ points[1][2] = Num(50)
    /\ zones = <<"mixed_discharge_thermal">>

\* One third of 100, the share of each ratio of the renormalised fallback.
Third == RDiv(Num(100), Num(3))

----------------------------------------------------------------------------
(* Claims about the Duval projection. *)

\* C19: the projection maps every percentage triple (CH4%, C2H4%, C2H2%) to the
\* point x = 0.5 * C2H4% + 1 * C2H2%, y = 0.866 * C2H4%, a function of the
\* triple alone (a record without a triple gets no point).
C19_ProjectionAsStated ==
    pc = "plotted" =>
        IF duval = NoneTriple THEN points = <<>>
        ELSE points = << << RAdd(RMul(Rat(5, 10), duval[2]), duval[3]),
                            RMul(Rat(866, 1000), duval[2]) >> >>

\* The pure-ethylene triple (0, 100, 0) has been plotted at (50, 74.9956),
\* below the apex (50, 86.6) of the triangle drawn at app.py:344-345.
C19_Witness ==
    /\ pc = "plotted"
    /\ duval = <<Num(0), Num(100), Num(0)>>
    /\ points = << <<Num(50), Rat(749956, 10000)>> >>

----------------------------------------------------------------------------
(* Record parser: the identity fields of a composite label.                *)
(*                                                                         *)
(* A string is a sequence of atoms: a whitespace character " ", or a       *)
(* maximal run of non-whitespace characters written as one TLA+ string     *)
(* ("6515A", "1404-09-29").  DateShaped lists the runs of the model that   *)
(* have the shape \d{4}-\d{2}-\d{2}.  A string cell is Str(atoms).         *)

Str(atoms) == [str |-> atoms]

DateShaped == {"1404-09-29", "1404-09-28", "1404-09-27", "1404-09-25", "1404-09-22"}

\* The regex classes \s and \S on the atoms of s between positions a and b.
AllSpace(s, a, b) == \A x \in a..b : s[x] = " "

NoSpace(s, a, b) == \A x \in a..b : s[x] # " "

\* app.py:72, the ways the pattern
\*     ^(\S+)\s+(\S+)\s+(.+?)\s+(\d{4}-\d{2}-\d{2})$
\* matches the whole string s: <<i, j, k, l, m>> with group 1 = s[1..i],
\* whitespace s[i+1..j], group 2 = s[j+1..k], whitespace s[k+1..l],
\* group 3 = s[l+1..m], whitespace s[m+1..n-1] and group 4 = s[n].
pattern_matches(s) ==
    LET n == Len(s)
    IN  IF n = 0 \/ s[n] \notin DateShaped THEN {}
        ELSE UNION { UNION { UNION { UNION {
                 { <<i, j, k, l, m>> :
                     m \in {m \in (l + 1)..(n - 2) : AllSpace(s, m + 1, n - 1)} }
               : l \in {l \in (k + 1)..(n - 3) : AllSpace(s, k + 1, l)} }
               : k \in {k \in (j + 1)..(n - 4) : NoSpace(s, j + 1, k)} }
               : j \in {j \in (i + 1)..(n - 5) : AllSpace(s, i + 1, j)} }
               : i \in {i \in 1..(n - 6) : NoSpace(s, 1, i)} }

\* The order in which the backtracking matcher tries the matches: the greedy
\* \S+ and \s+ (i, j, k, l) longest first, the lazy .+? (m) shortest first.
tried_before(t, u) ==
    \E q \in 1..5 :
        /\ \A x \in 1..(q - 1) : t[x] = u[x]
        /\ IF q = 5 THEN t[q] < u[q] ELSE t[q] > u[q]

\* Faulty variant of str_extract: the middle group is greedy and keeps the
\* first token only when there are several (it stops at the first whitespace).
str_extract_firstmiddle(s) ==
    IF s = NaN \/ pattern_matches(s.str) = {} THEN <<NaN, NaN, NaN, NaN>>
    ELSE LET M == pattern_matches(s.str)
             t == CHOOSE t \in M : \A u \in M \ {t} : tried_before(t, u)
             e == CHOOSE e \in (t[4] + 1)..t[5] :
                      /\ \A x \in (t[4] + 1)..e : s.str[x] # " "
                      /\ (e = t[5] \/ s.str[e + 1] = " ")
         IN  << Str(SubSeq(s.str, 1, t[1])),
                Str(SubSeq(s.str, t[2] + 1, t[3])),
                Str(SubSeq(s.str, t[4] + 1, e)),
                Str(SubSeq(s.str, Len(s.str), Len(s.str))) >>

\* app.py:75, Series.str.extract(pattern) on one cell: the four groups of the
\* first match the matcher finds, four NaN when the cell is empty or the
\* pattern does not match.
str_extract(s) ==
    IF s = NaN \/ pattern_matches(s.str) = {} THEN <<NaN, NaN, NaN, NaN>>
    ELSE LET M == pattern_matches(s.str)
             t == CHOOSE t \in M : \A u \in M \ {t} : tried_before(t, u)
         IN  << Str(SubSeq(s.str, 1, t[1])),
                Str(SubSeq(s.str, t[2] + 1, t[3])),
                Str(SubSeq(s.str, t[4] + 1, t[5])),
                Str(SubSeq(s.str, Len(s.str), Len(s.str))) >>

\* Column tokens for the program's identity columns (app.py:79):
\*   "kod_post" 'کد_پست'   "nam_tajhiz" 'نام_تجهیز'   "nam_post" 'نام_پست'
\*   "tarikh_shamsi" 'تاریخ_شمسی'
IdentityColumns == <<"kod_post", "nam_tajhiz", "nam_post", "tarikh_shamsi">>

\* app.py:72-87 on one row: the four identity columns get the groups of
\* str.extract.  extracted has one column per group of the pattern, so the
\* test extracted.shape[1] == 4 of app.py:78 holds for every frame and the
\* whitespace-split branch of app.py:80-87 never runs; it would stop at
\* len(parts.str) (app.py:85), which raises TypeError.
parse_identity(r) ==
    LET extracted == str_extract(r["SampleName"])
    IN  IF Len(extracted) = 4
        THEN SetCol(SetCol(SetCol(SetCol(r, "kod_post", extracted[1]),
                                  "nam_tajhiz", extracted[2]),
                           "nam_post", extracted[3]),
                    "tarikh_shamsi", extracted[4])
        ELSE [raised |-> "TypeError"]

----------------------------------------------------------------------------
(* The parser applied to one label: specification SpecLabel. *)

\* The non-whitespace runs the generated labels are made of.
LabelTokens == {"6515A", "T1", "1404-09-29"}

\* The widths of the whitespace between two tokens of a generated label.
Gaps == {1, 2}

\* w whitespace characters.
Spaces(w) == [x \in 1..w |-> " "]

RECURSIVE Join(_, _)
\* The tokens toks joined by gaps[x] whitespace characters after token x.
Join(toks, gaps) ==
    IF Len(toks) = 0 THEN <<>>
    ELSE IF Len(toks) = 1 THEN toks
    ELSE <<toks[1]>> \o Spaces(gaps[1]) \o Join(Tail(toks), Tail(gaps))

\* Labels of 1 to MaxTokens tokens, with single or double spacing and with
\* or without a leading or a trailing whitespace character.
GeneratedLabels ==
    UNION { { Spaces(pad[1]) \o Join(toks, gaps) \o Spaces(pad[2]) :
                toks \in [1..k -> LabelTokens],
                gaps \in [1..(k - 1) -> Gaps],
                pad \in {<<0, 0>>, <<1, 0>>, <<0, 1>>} }
            : k \in 1..MaxTokens }

\* app.py:611-615, the SampleName column of the demo data.
sample_names ==
    << <<"6515A", " ", "T1", " ", "SANATI", " ", "BAHARESTAN", " ", "1404-09-29">>,
       <<"5165I", " ", "T2", " ", "ANDISHEH3", " ", "1404-09-28">>,
       <<"7427T", " ", "T1", " ", "HEMATI", " ", "1404-09-27">>,
       <<"7407H", " ", "T3", " ", "JAMKARAN230", " ", "1404-09-25">>,
       <<"5245L", " ", "T2", " ", "SAYAR", " ", "GOLShAHR", " ", "1404-09-22">> >>

DemoLabels == {sample_names[x] : x \in 1..Len(sample_names)}

\* The label cells of a file: strings, or NaN for an empty cell.
LabelCells == {Str(s) : s \in GeneratedLabels \cup DemoLabels} \cup {NaN}

InitLabel ==
    /\ pc = "read"
    /\ row \in {[SampleName |-> c] : c \in LabelCells}
    /\ duval = Unused /\ ternary = Unused /\ points = <<>> /\ zones = <<>>
    /\ df = <<>> /\ kpi = Unused
    /\ NoApp

\* app.py:72-87 on one row.
ParseLabel ==
    /\ pc = "read"
    /\ row' = parse_identity(row)
    /\ pc' = "parsed"
    /\ UNCHANGED <<duval, ternary, points, zones, df, kpi, appvars>>

NextLabel == ParseLabel

SpecLabel == InitLabel /\ [][NextLabel]_vars

----------------------------------------------------------------------------
(* Claims about the record parser. *)

\* The positions of the tokens (the non-whitespace runs) of the string s.
TokenPositions(s) == {x \in 1..Len(s) : s[x] # " "}

\* The x-th smallest element of the set of positions P.
Nth(P, x) == CHOOSE p \in P : Cardinality({q \in P : q <= p}) = x

\* The string s is a first token, a second token, one or more middle tokens
\* and a final date-shaped token, separated by whitespace, with nothing
\* before the first token or after the date.
LabelShaped(s) ==
    /\ Cardinality(TokenPositions(s)) >= 4
    /\ s[1] # " " /\ s[Len(s)] \in DateShaped
    /\ \A x \in 1..(Len(s) - 1) : s[x] = " " \/ s[x + 1] = " "

\* C15: for every label made of a first token, a second token, one or more
\* middle tokens and a final YYYY-MM-DD token at the end of the string, the
\* parser yields the first token as site code, the second as equipment id,
\* all middle tokens with the whitespace between them as station name, and
\* the final token as date.
C15_PrimaryRegex ==
    (pc = "parsed" /\ row["SampleName"] # NaN /\ LabelShaped(row["SampleName"].str)) =>
        LET s == row["SampleName"].str
            P == TokenPositions(s)
            c == Cardinality(P)
        IN  /\ row["kod_post"] = Str(<<s[Nth(P, 1)]>>)
            /\ row["nam_tajhiz"] = Str(<<s[Nth(P, 2)]>>)
            /\ row["nam_post"] = Str(SubSeq(s, Nth(P, 3), Nth(P, c - 1)))
            /\ row["tarikh_shamsi"] = Str(<<s[Nth(P, c)]>>)

\* Scenario D: "6515A T1 SANATI BAHARESTAN 1404-09-29" has been parsed to
\* ("6515A", "T1", "SANATI BAHARESTAN", "1404-09-29").
C15_Witness ==
    /\ pc = "parsed"
    /\ row["SampleName"] = Str(sample_names[1])
    /\ row["kod_post"] = Str(<<"6515A">>)
    /\ row["nam_tajhiz"] = Str(<<"T1">>)
    /\ row["nam_post"] = Str(<<"SANATI", " ", "BAHARESTAN">>)
    /\ row["tarikh_shamsi"] = Str(<<"1404-09-29">>)

\* The x-th token of the string s as a cell, NaN when s has fewer tokens
\* (Series.str[x] of the whitespace split).
TokenCell(s, x) ==
    IF x <= Cardinality(TokenPositions(s)) THEN Str(<<s[Nth(TokenPositions(s), x)]>>)
    ELSE NaN

\* C16: for a row whose label does not match the primary pattern, the label is
\* split on whitespace and the site code is token 0, the equipment id token 1,
\* the station name token 2 only and the date the last token, instead of the
\* identity fields being left null.
C16_FallbackSplit ==
    (pc = "parsed" /\ row["SampleName"] # NaN
        /\ pattern_matches(row["SampleName"].str) = {}) =>
        LET s == row["SampleName"].str
        IN  /\ row["kod_post"] = TokenCell(s, 1)
            /\ row["nam_tajhiz"] = TokenCell(s, 2)
            /\ row["nam_post"] = TokenCell(s, 3)
            /\ row["tarikh_shamsi"] = TokenCell(s, Cardinality(TokenPositions(s)))

\* The three-token label "6515A T1 1404-09-29" does not match the pattern and
\* has been parsed to four null identity fields.
C16_Witness ==
    /\ pc = "parsed"
    /\ row["SampleName"] = Str(<<"6515A", " ", "T1", " ", "1404-09-29">>)
    /\ row["kod_post"] = NaN /\ row["nam_tajhiz"] = NaN
    /\ row["nam_post"] = NaN /\ row["tarikh_shamsi"] = NaN

----------------------------------------------------------------------------
(* The Streamlit script (app.py:534-1108): a file is uploaded, or the demo  *)
(* data are asked for, then parsed, classified and stored in the session;  *)
(* the main content filters the stored dataset and renders the KPI cards,  *)
(* the DGA summary with the ternary chart, and the exports.                *)
(*                                                                         *)
(* A frame is [columns, rows]: the column names and the rows in index      *)
(* order, each row a function from the columns to cells.  A file is the    *)
(* frame pd.read_csv returns for it; its SampleName column holds text.     *)
(* Messages are written by kind and an ASCII token for their text.         *)
(* The InjDateTime conversion (app.py:89-94), the charts and the means in  *)
(* the export sheets are not modelled.                                      *)

Frame(columns, rows) == [columns |-> columns, rows |-> rows]

Message(kind, text) == [kind |-> kind, text |-> text]

\* app.py:97-99
num_cols ==
    {"TCG", "TAN", "BreakdownVoltage", "WaterContents", "DDF", "hydrogen",
     "Methane", "Ethane", "Ethylene", "Acetylene", "CarbonMonoxide",
     "CarbonDioxide", "propane", "propylene"}

\* app.py:102, pd.to_numeric(errors='coerce') on one cell: a number stays, an
\* empty or unparseable cell becomes NaN.
to_numeric(cell) == IF "n" \in DOMAIN cell THEN cell ELSE NaN

\* app.py:100-104 on one row.
coerce_row(r) ==
    [c \in DOMAIN r |-> IF c \in num_cols THEN to_numeric(r[c]) ELSE r[c]]

\* Faulty variant of load_and_parse: the SampleName check is missing and a
\* file without the column is parsed with null identity fields.
load_and_parse_nocheck(file) ==
    LET labelled == [x \in 1..Len(file.rows) |->
                        IF "SampleName" \in file.columns THEN file.rows[x]
                        ELSE SetCol(file.rows[x], "SampleName", NaN)]
        parsed == [x \in 1..Len(file.rows) |-> parse_identity(labelled[x])]
    IN  [value |-> Frame(file.columns \cup {"SampleName"}
                            \cup {IdentityColumns[x] : x \in 1..4},
                        [x \in 1..Len(file.rows) |-> coerce_row(parsed[x])]),
         emitted |-> <<>>]

\* app.py load_and_parse: None with an error box and the column list when the
\* frame has no SampleName column (app.py:66-69), None with an error box when
\* a step raised (app.py:108-111), else the frame with the identity columns
\* added and the measurement columns converted.  value is what it returns,
\* emitted the boxes it shows.
load_and_parse(file) ==
    IF "SampleName" \notin file.columns
    THEN [value |-> None,
          emitted |-> << Message("error", "SampleName_not_found"),
                         Message("write", "columns") >>]
    ELSE LET parsed == [x \in 1..Len(file.rows) |-> parse_identity(file.rows[x])]
         IN  IF \E x \in 1..Len(parsed) : "raised" \in DOMAIN parsed[x]
             THEN [value |-> None,
                   emitted |-> << Message("error", "load_failed") >>]
             ELSE [value |-> Frame(file.columns \cup {IdentityColumns[x] : x \in 1..4},
                                   [x \in 1..Len(file.rows) |-> coerce_row(parsed[x])]),
                   emitted |-> <<>>]

\* app.py:575-578 on one row: the three risk columns.
score_row(r) ==
    LET s == calculate_risk_score(r)
    IN  SetCol(SetCol(SetCol(r, "RiskScore", s), "RiskFlag", get_risk_flag(s)),
               "RiskLevel", get_risk_level(s))

\* app.py:585-593, the entry of duval_results for one row.
duval_result(r) ==
    LET t == calculate_duval_triangle(r)
    IN  [c \in {"CH4%", "C2H4%", "C2H2%", "DuvalZone"} |->
            CASE c = "CH4%" -> t[1]
              [] c = "C2H4%" -> t[2]
              [] c = "C2H2%" -> t[3]
              [] c = "DuvalZone" -> duval_zone_detection(t[1], t[2], t[3])]

\* Faulty variant of classify_frame: the frame is returned after the risk
\* columns, before the Duval classification.
classify_frame_riskonly(frame) ==
    Frame(frame.columns \cup {"RiskScore", "RiskFlag", "RiskLevel"},
          [x \in 1..Len(frame.rows) |-> score_row(frame.rows[x])])

\* Faulty variant of classify_frame: duval_results is built in reverse row order.
classify_frame_reversed(frame) ==
    LET n == Len(frame.rows)
        scored == [x \in 1..n |-> score_row(frame.rows[x])]
        duval_results == [x \in 1..n |-> duval_result(scored[n + 1 - x])]
    IN  Frame(frame.columns \cup {"RiskScore", "RiskFlag", "RiskLevel"}
                  \cup (IF n = 0 THEN {} ELSE {"CH4%", "C2H4%", "C2H2%", "DuvalZone"}),
              [x \in 1..n |-> duval_results[x] @@ scored[x]])

\* app.py:575-596: the risk columns, then duval_results row by row, then the
\* concatenation of the frame with pd.DataFrame(duval_results) along the
\* columns (both indexed 0..n-1; an empty duval_results has no columns).
classify_frame(frame) ==
    LET n == Len(frame.rows)
        scored == [x \in 1..n |-> score_row(frame.rows[x])]
        duval_results == [x \in 1..n |-> duval_result(scored[x])]
    IN  Frame(frame.columns \cup {"RiskScore", "RiskFlag", "RiskLevel"}
                  \cup (IF n = 0 THEN {} ELSE {"CH4%", "C2H4%", "C2H2%", "DuvalZone"}),
              [x \in 1..n |-> duval_results[x] @@ scored[x]])

\* The option 'همه' ("all") of the two selectboxes (app.py:697, 701).
All == Str(<<"hame">>)

\* app.py:697 and 701: the options of the selectbox over column col.
options(frame, col) ==
    {All} \cup ({frame.rows[x][col] : x \in 1..Len(frame.rows)} \ {NaN})

\* The values of the RiskScore column.
risk_scores(frame) == {frame.rows[x]["RiskScore"] : x \in 1..Len(frame.rows)}

\* app.py:705-707: <<min_score, max_score>>, the bounds of the slider and its
\* first value: the smallest and the largest score of the stored dataset, 0
\* and 100 when it is empty.
full_range(frame) ==
    LET S == risk_scores(frame)
    IN  IF S = {} THEN <<0, 100>>
        ELSE << CHOOSE v \in S : \A w \in S : v <= w,
                CHOOSE v \in S : \A w \in S : v >= w >>

\* The ranges the slider is set to in the model: <<low, high>> with both ends
\* on a score of the dataset or on a bound of the slider.
risk_ranges(frame) ==
    LET ends == risk_scores(frame) \cup {full_range(frame)[1], full_range(frame)[2]}
    IN  {<<lo, hi>> \in ends \X ends : lo <= hi}

\* app.py:710-722: a copy of the frame with the rows that pass the three filters.
apply_filters(frame, selected_post, selected_equipment, risk_range) ==
    LET keep(r) ==
            /\ selected_post # All => r["nam_post"] = selected_post
            /\ selected_equipment # All => r["nam_tajhiz"] = selected_equipment
            /\ r["RiskScore"] >= risk_range[1] /\ r["RiskScore"] <= risk_range[2]
    IN  Frame(frame.columns, SelectSeq(frame.rows, keep))

\* The zone literals of duval_zone_detection (app.py:216-242) in the order of
\* Python's string comparison, which compares the code points of the Persian
\* literals: 'تخلیه با انرژی بالا (D2)' < 'تخلیه با انرژی کم (D1)' <
\* 'تخلیه جزئی (PD)' < 'تخلیه جزئی (PD) با قوس' < 'داده ناکافی' <
\* 'کرونا با تخلیه (D1)' < 'گرمایش زیاد دما (T3) >700°C' <
\* 'گرمایش متوسط (T2) 300-700°C' < 'گرمایش و تخلیه ترکیبی (DT)' <
\* 'گرمایش کم دما (T1) <300°C'.
ZoneSortOrder ==
    << "D2_high_energy", "D1_low_energy", "PD", "PD_with_arcing",
       "INSUFFICIENT_DATA", "D1_corona", "T3_high_temp", "T2_mid_temp",
       "DT_mixed", "T1_low_temp" >>

\* The position of zone z in the sort order.
ZoneRank(z) == CHOOSE x \in 1..Len(ZoneSortOrder) : ZoneSortOrder[x] = z

\* The number of entries of the sequence zs that equal z.
value_count(zs, z) == Cardinality({x \in 1..Len(zs) : zs[x] = z})

\* The values of zs that occur most often.
modal_values(zs) ==
    {zs[x] : x \in {x \in 1..Len(zs) :
                      \A y \in 1..Len(zs) : value_count(zs, zs[y]) <= value_count(zs, zs[x])}}

\* Faulty variant of mode: the most frequent values in order of first occurrence.
mode_firstseen(zs) ==
    LET Mo == modal_values(zs)
        first(z) == CHOOSE x \in 1..Len(zs) : zs[x] = z /\ \A y \in 1..(x - 1) : zs[y] # z
    IN  [x \in 1..Cardinality(Mo) |->
            CHOOSE z \in Mo : Cardinality({w \in Mo : first(w) <= first(z)}) = x]

\* app.py:853, Series.mode(): the most frequent values, sorted ascending.
mode(zs) ==
    LET Mo == modal_values(zs)
    IN  [x \in 1..Cardinality(Mo) |->
            CHOOSE z \in Mo : Cardinality({w \in Mo : ZoneRank(w) <= ZoneRank(z)}) = x]

\* The DuvalZone column of a frame.
zone_column(frame) == [x \in 1..Len(frame.rows) |-> frame.rows[x]["DuvalZone"]]

\* app.py:832-858, the 'most common fault' card of the DGA tab; a warning
\* takes the place of the cards when a gas column is missing or the filtered
\* frame is empty.
common_zone_card(filtered_df) ==
    IF TernaryColumns \ filtered_df.columns # {} THEN "warning_missing_gas_columns"
    ELSE IF filtered_df.rows = <<>> THEN "warning_no_data"
    ELSE IF "DuvalZone" \in filtered_df.columns
         THEN LET common_zone == mode(zone_column(filtered_df))
              IN  IF common_zone # <<>> THEN common_zone[1] ELSE "nadarad"
         ELSE "not_computed"

\* app.py create_ternary_plot over a frame: the rows that get a point, which
\* are the rows for which calculate_ternary_ratios returns numbers
\* (app.py:436-446), or None when no row gets one (app.py:472-473).  The
\* point and the zone label of a row are those of ternary_plot_row.
create_ternary_plot(frame) ==
    LET plotted == {x \in 1..Len(frame.rows) :
                       missing_gases(frame.rows[x], TernaryGases) = <<>>}
    IN  IF plotted = {} THEN None ELSE [plotted |-> plotted]

\* app.py:832-840: the DGA tab draws its charts when the filtered frame has
\* the five gas columns and at least one row.
dga_charts_drawn(filtered_df) ==
    TernaryColumns \ filtered_df.columns = {} /\ filtered_df.rows # <<>>

\* app.py:921, the ternary chart of the DGA tab: "not_drawn" when the tab shows
\* a warning instead of its charts.
ternary_chart(filtered_df) ==
    IF dga_charts_drawn(filtered_df) THEN create_ternary_plot(filtered_df)
    ELSE [not_drawn |-> TRUE]

\* app.py:1026-1031 and 1035-1040, groupby(col) with 'کد_پست': 'count': for
\* each value of col in the frame the number of its rows with a site code.
group_counts(frame, col) ==
    [g \in {frame.rows[x][col] : x \in 1..Len(frame.rows)} |->
        Cardinality({x \in 1..Len(frame.rows) :
                        frame.rows[x][col] = g /\ frame.rows[x]["kod_post"] # NaN})]

\* app.py:1003-1043 and 1081: the export tab renders the CSV of the filtered
\* frame, the summary sheets and the count of HIGH rows, unless the filtered
\* frame is empty.
export_tab(filtered_df) ==
    IF filtered_df.rows = <<>> THEN None
    ELSE [csv_data |-> filtered_df.rows,
          summary_df |-> group_counts(filtered_df, "RiskLevel"),
          dga_summary |-> IF "DuvalZone" \in filtered_df.columns
                          THEN group_counts(filtered_df, "DuvalZone") ELSE None,
          high_risk_count |->
              Cardinality({x \in 1..Len(filtered_df.rows) :
                              filtered_df.rows[x]["RiskLevel"] = "HIGH"})]

----------------------------------------------------------------------------
(* The script runs of one browser session: specification SpecApp. *)

\* Row x of the demo data with its label.
demo_row(x) == [SampleName |-> Str(sample_names[x])] @@ sample_data[x]

\* A row as a hand-edited file has it: a label without the date, text in the
\* TCG cell and an empty acetylene cell.
DirtyRow ==
    [demo_row(3) EXCEPT !["SampleName"] = Str(<<"7427T", " ", "T1", " ", "HEMATI">>),
                        !["TCG"] = Text({}),
                        !["Acetylene"] = NaN]

\* The rows the uploaded files are made of.
AppRows == {demo_row(1), demo_row(2), DirtyRow}

AppColumns == DOMAIN demo_row(1)

\* app.py:610-633, the demo data as load_and_parse reads it back from its CSV
\* text: five rows of labels, integers, short decimals and notes, which
\* to_csv writes and read_csv reads without loss.  The two carbon oxide
\* columns, which no step reads, are left out.
sample_file == Frame(AppColumns, [x \in 1..Len(sample_data) |-> demo_row(x)])

\* app.py:633, what load_and_parse returns for the demo data.
df_parsed == load_and_parse(sample_file)

\* Files with the SampleName column and up to MaxRows rows.
LabelledFiles ==
    UNION { {Frame(AppColumns, rows) : rows \in [1..k -> AppRows]} : k \in 0..MaxRows }

\* Files without the SampleName column, with no row or one row.
UnlabelledFiles ==
    {Frame(AppColumns \ {"SampleName"}, <<>>)} \cup
    {Frame(AppColumns \ {"SampleName"}, <<DropCol(r, "SampleName")>>) : r \in AppRows}

Files == LabelledFiles \cup UnlabelledFiles

\* The filter widgets as a run shows them first: 'همه' in both selectboxes
\* and the slider on the whole range (risk_range None stands for the range
\* from the smallest to the largest score, app.py:707).
default_filters ==
    [selected_post |-> All, selected_equipment |-> All, risk_range |-> None]

InitApp ==
    /\ pc = "start"
    /\ uploaded_file = None
    /\ session_state = <<>>
    /\ messages = <<>> /\ trace = <<>> /\ view = None
    /\ filters = default_filters
    /\ row = Unused /\ duval = Unused /\ ternary = Unused
    /\ points = <<>> /\ zones = <<>> /\ df = <<>> /\ kpi = Unused

\* The user puts a file into the uploader, replaces it or removes it (f is
\* None): Streamlit starts a run of the script, which shows the filter
\* widgets of the new dataset at their first values.
ChooseFile ==
    /\ pc \in {"start", "done", "stopped"}
    /\ \E f \in Files \cup {None} : uploaded_file' = f
    /\ filters' = default_filters
    /\ pc' = "sidebar"
    /\ messages' = <<>> /\ trace' = <<>> /\ view' = None
    /\ UNCHANGED <<row, duval, ternary, points, zones, df, kpi, session_state>>

\* The user sets the filter widgets of the rendered page (app.py:697-707):
\* Streamlit starts a run of the script with the same file in the uploader.
ChangeFilter ==
    /\ pc = "done"
    /\ \E selected_post \in options(session_state["df"], "nam_post"),
          selected_equipment \in options(session_state["df"], "nam_tajhiz"),
          risk_range \in risk_ranges(session_state["df"]) :
          filters' = [selected_post |-> selected_post,
                      selected_equipment |-> selected_equipment,
                      risk_range |-> risk_range]
    /\ pc' = "sidebar"
    /\ messages' = <<>> /\ trace' = <<>> /\ view' = None
    /\ UNCHANGED <<row, duval, ternary, points, zones, df, kpi, uploaded_file,
                   session_state>>

\* The user presses the demo-data button (app.py:608), which the page shows
\* when the last run found no file in the uploader: Streamlit starts a run of
\* the script in which st.button returns True (pc "clicked").
PressDemo ==
    /\ pc = "stopped"
    /\ uploaded_file = None
    /\ pc' = "clicked"
    /\ messages' = <<>> /\ trace' = <<>> /\ view' = None
    /\ UNCHANGED <<row, duval, ternary, points, zones, df, kpi, uploaded_file,
                   session_state, filters>>

\* The statements of app.py:553-598 and of app.py:633-654 that a run executes
\* when load_and_parse returned a frame, in program order.
pipeline_steps ==
    << "load_and_parse", "RiskScore", "RiskFlag", "RiskLevel", "duval_results",
       "concat", "session_state.df" >>

\* Faulty variant of RunSidebar: a run classifies only when the session holds
\* no dataset yet, so a dataset once stored is never computed again.
RunSidebar_once ==
    /\ pc \in {"sidebar", "clicked"}
    /\ IF uploaded_file # None
       THEN LET loaded == load_and_parse(uploaded_file)
            IN  IF loaded.value # None
                THEN /\ IF "df" \in DOMAIN session_state
                        THEN /\ UNCHANGED session_state
                             /\ trace' = << "load_and_parse" >>
                        ELSE /\ session_state' = ("df" :> classify_frame(loaded.value))
                             /\ trace' = pipeline_steps
                     /\ messages' = loaded.emitted \o
                            << Message("success", "records_loaded"),
                               Message("success", "dga_done") >>
                     /\ pc' = "main"
                ELSE /\ messages' = loaded.emitted \o
                            << Message("error", "processing_error") >>
                     /\ trace' = << "load_and_parse", "st.stop" >>
                     /\ pc' = "stopped"
                     /\ UNCHANGED session_state
       ELSE IF pc = "clicked"
       THEN /\ IF df_parsed.value # None /\ "df" \notin DOMAIN session_state
               THEN /\ session_state' = ("df" :> classify_frame(df_parsed.value))
                    /\ trace' = pipeline_steps \o << "st.rerun" >>
               ELSE /\ UNCHANGED session_state
                    /\ trace' = << "load_and_parse", "st.rerun" >>
            /\ messages' = << Message("info", "please_upload") >> \o df_parsed.emitted
            /\ pc' = "sidebar"
       ELSE /\ messages' = << Message("info", "please_upload") >>
            /\ trace' = << "st.stop" >>
            /\ pc' = "stopped"
            /\ UNCHANGED session_state
    /\ UNCHANGED <<row, duval, ternary, points, zones, df, kpi, uploaded_file,
                   filters, view>>

\* app.py:543-657, the sidebar of a run.  With a file in the uploader the file
\* is parsed, classified and stored under the key df, or the run reports the
\* failure and stops (app.py:551-603).  Without a file the run asks for one;
\* when the demo-data button started the run, the demo data are parsed,
\* classified and stored and st.rerun() starts the script again
\* (app.py:608-655); otherwise the run stops (app.py:657).
RunSidebar ==
    /\ pc \in {"sidebar", "clicked"}
    /\ IF uploaded_file # None
       THEN LET loaded == load_and_parse(uploaded_file)
            IN  IF loaded.value # None
                THEN /\ session_state' = ("df" :> classify_frame(loaded.value))
                     /\ messages' = loaded.emitted \o
                            << Message("success", "records_loaded"),
                               Message("success", "dga_done") >>
                     /\ trace' = pipeline_steps
                     /\ pc' = "main"
                ELSE /\ messages' = loaded.emitted \o
                            << Message("error", "processing_error") >>
                     /\ trace' = << "load_and_parse", "st.stop" >>
                     /\ pc' = "stopped"
                     /\ UNCHANGED session_state
       ELSE IF pc = "clicked"
       THEN /\ IF df_parsed.value # None
               THEN /\ session_state' = ("df" :> classify_frame(df_parsed.value))
                    /\ trace' = pipeline_steps \o << "st.rerun" >>
               ELSE /\ UNCHANGED session_state
                    /\ trace' = << "load_and_parse", "st.rerun" >>
            /\ messages' = << Message("info", "please_upload") >> \o df_parsed.emitted
            /\ pc' = "sidebar"
       ELSE /\ messages' = << Message("info", "please_upload") >>
            /\ trace' = << "st.stop" >>
            /\ pc' = "stopped"
            /\ UNCHANGED session_state
    /\ UNCHANGED <<row, duval, ternary, points, zones, df, kpi, uploaded_file,
                   filters, view>>

\* Faulty variant of RenderMain: the filters are applied to the stored frame
\* itself (no copy, rows dropped in place), so the stored dataset shrinks.
RenderMain_inplace ==
    /\ pc = "main"
    /\ "df" \in DOMAIN session_state
    /\ LET stored == session_state["df"]
           risk_range == IF filters.risk_range = None
                         THEN full_range(stored) ELSE filters.risk_range
           filtered_df == apply_filters(stored, filters.selected_post,
                                        filters.selected_equipment, risk_range)
       IN  /\ kpi' = [total_trans |-> Len(stored.rows),
                      high_risk |->
                          Cardinality({x \in 1..Len(stored.rows) :
                                          stored.rows[x]["RiskScore"] >= 60}),
                      medium_risk |->
                          Cardinality({x \in 1..Len(stored.rows) :
                                          /\ stored.rows[x]["RiskScore"] >= 35
                                          /\ stored.rows[x]["RiskScore"] < 60})]
           /\ view' = [filtered_df |-> filtered_df,
                       common_zone |-> common_zone_card(filtered_df),
                       ternary_fig |-> ternary_chart(filtered_df),
                       export |-> export_tab(filtered_df)]
           /\ trace' = IF dga_charts_drawn(filtered_df)
                       THEN trace \o << "calculate_ternary_ratios" >> ELSE trace
           /\ session_state' = ("df" :> filtered_df)
    /\ pc' = "done"
    /\ UNCHANGED <<row, duval, ternary, points, zones, df, uploaded_file,
                   messages, filters>>

\* app.py:659-1103, the main content of a run that did not stop: the KPI cards
\* of the stored dataset, then the filters at the values of the widgets, the
\* DGA card, the ternary chart (whose loop calls calculate_ternary_ratios for
\* each filtered row) and the export tab over the filtered copy.
RenderMain ==
    /\ pc = "main"
    /\ "df" \in DOMAIN session_state
    /\ LET stored == session_state["df"]
       IN  /\ kpi' = [total_trans |-> Len(stored.rows),
                      high_risk |->
                          Cardinality({x \in 1..Len(stored.rows) :
                                          stored.rows[x]["RiskScore"] >= 60}),
                      medium_risk |->
                          Cardinality({x \in 1..Len(stored.rows) :
                                          /\ stored.rows[x]["RiskScore"] >= 35
                                          /\ stored.rows[x]["RiskScore"] < 60})]
           /\ LET risk_range == IF filters.risk_range = None
                                 THEN full_range(stored) ELSE filters.risk_range
                   filtered_df == apply_filters(stored, filters.selected_post,
                                                filters.selected_equipment,
                                                risk_range)
               IN  /\ view' = [filtered_df |-> filtered_df,
                                common_zone |-> common_zone_card(filtered_df),
                                ternary_fig |-> ternary_chart(filtered_df),
                                export |-> export_tab(filtered_df)]
                   /\ trace' = IF dga_charts_drawn(filtered_df)
                               THEN trace \o << "calculate_ternary_ratios" >>
                               ELSE trace
    /\ pc' = "done"
    /\ UNCHANGED <<row, duval, ternary, points, zones, df, uploaded_file,
                   session_state, messages, filters>>

NextApp == ChooseFile \/ ChangeFilter \/ PressDemo \/ RunSidebar \/ RenderMain

SpecApp == InitApp /\ [][NextApp]_vars

----------------------------------------------------------------------------
(* Claims about the script runs. *)

\* The uploader holds a file without the SampleName column.
Unlabelled(f) == f # None /\ "SampleName" \notin f.columns

\* The uploader holds a file with the SampleName column.
Labelled(f) == f # None /\ "SampleName" \in f.columns

\* The statements of a run that classify rows or store the dataset.
ClassifyingSteps ==
    {"RiskScore", "RiskFlag", "RiskLevel", "duval_results", "concat", "session_state.df"}

\* C13: when the uploaded batch lacks the SampleName column, the run aborts the
\* whole batch before any classification: it computes no risk score, risk
\* category or Duval zone, stores no dataset in the session state (which
\* stays as it was) and stops without rendering the main content.
C13_MissingLabelAborts ==
    [][ (pc = "sidebar" /\ Unlabelled(uploaded_file)) =>
            /\ pc' = "stopped"
            /\ session_state' = session_state
            /\ \A x \in 1..Len(trace') : trace'[x] \notin ClassifyingSteps
            /\ view' = None /\ kpi' = kpi ]_vars

\* A one-row file without the SampleName column has been uploaded after a
\* dataset was stored: the run stopped after load_and_parse and the session
\* still holds the earlier dataset.
C13_Witness ==
    /\ pc = "stopped"
    /\ Unlabelled(uploaded_file) /\ Len(uploaded_file.rows) = 1
    /\ trace = <<"load_and_parse", "st.stop">>
    /\ "df" \in DOMAIN session_state
    /\ Len(session_state["df"].rows) = 2
    /\ view = None

ZoneColumnValues(zs) == {zs[x] : x \in 1..Len(zs)}

\* The position of the first entry of the sequence zs that equals z.
FirstSeen(zs, z) == CHOOSE x \in 1..Len(zs) : zs[x] = z /\ \A y \in 1..(x - 1) : zs[y] # z

\* The zone z occurs in zs at least as often as every other zone.
MostFrequent(zs, z) ==
    /\ \E x \in 1..Len(zs) : zs[x] = z
    /\ \A y \in 1..Len(zs) : value_count(zs, zs[y]) <= value_count(zs, z)

\* The DGA card of the rendered page shows a most frequent zone.
CardShown == pc = "done" /\ view.common_zone \in ZoneColumnValues(ZoneSortOrder)

\* C17 as stated: the zone reported as most frequent has maximal count, and
\* among several zones of maximal count it is the one that occurs first in
\* row order.
C17_TieFirstInRowOrder ==
    CardShown =>
        LET zs == zone_column(view.filtered_df)
        IN  /\ MostFrequent(zs, view.common_zone)
            /\ \A z \in ZoneColumnValues(zs) :
                  MostFrequent(zs, z) =>
                      FirstSeen(zs, view.common_zone) <= FirstSeen(zs, z)

\* C17 as amended: the zone reported as most frequent has maximal count, and
\* among several zones of maximal count it is the one whose name comes first
\* in string order, whatever the row order.
C17_TieSortedFirst ==
    CardShown =>
        LET zs == zone_column(view.filtered_df)
        IN  /\ MostFrequent(zs, view.common_zone)
            /\ \A z \in ZoneColumnValues(zs) :
                  MostFrequent(zs, z) =>
                      ZoneRank(view.common_zone) <= ZoneRank(z)

\* Demo row 1 (PD with arcing) followed by demo row 2 (D2): the zones tie and
\* the card shows D2, the zone of the second row.
C17_Witness ==
    /\ pc = "done"
    /\ zone_column(view.filtered_df) = <<"PD_with_arcing", "D2_high_energy">>
    /\ view.common_zone = "D2_high_energy"

\* C18: filtering, summarising and exporting leave the stored dataset
\* unchanged: rendering the main content, setting the filters and the run
\* that follows a filter change all leave session_state as it was after
\* classification, also when no row passes the filters.
C18_StoredDatasetUnchanged ==
    [][ ( /\ uploaded_file' = uploaded_file
          /\ \/ pc \in {"main", "done"}
             \/ pc = "sidebar" /\ filters # default_filters )
        => session_state' = session_state ]_vars

\* After a filter change that no row passes, the page has been rendered with
\* an empty filtered frame and no export while the session holds the three
\* classified rows of the uploaded file.
C18_Witness ==
    /\ pc = "done"
    /\ filters # default_filters
    /\ view.filtered_df.rows = <<>> /\ view.export = None
    /\ Len(uploaded_file.rows) = 3
    /\ session_state["df"] = classify_frame(load_and_parse(uploaded_file).value)

\* The number of error boxes among the messages of the run.
ErrorCount == Cardinality({x \in 1..Len(messages) : messages[x].kind = "error"})

\* C20: the run that processes a batch without the SampleName column emits
\* exactly one error message for it.
C20_ErrorReportedOnce ==
    (pc = "stopped" /\ Unlabelled(uploaded_file)) => ErrorCount = 1

\* A file without the SampleName column has been processed: the run showed the
\* error box of load_and_parse, the column list and the error box of the
\* sidebar.
C20_Witness ==
    /\ pc = "stopped"
    /\ Unlabelled(uploaded_file)
    /\ messages = << Message("error", "SampleName_not_found"),
                     Message("write", "columns"),
                     Message("error", "processing_error") >>

\* The token tok occurs in the sequence tr.
Occurs(tok, tr) == \E x \in 1..Len(tr) : tr[x] = tok

\* The tokens a and b occur once each in tr, a before b.
Before(a, b, tr) ==
    /\ Cardinality({x \in 1..Len(tr) : tr[x] = a}) = 1
    /\ Cardinality({x \in 1..Len(tr) : tr[x] = b}) = 1
    /\ \A x, y \in 1..Len(tr) : (tr[x] = a /\ tr[y] = b) => x < y

\* The step is the sidebar of a run that stores a dataset.
StoreStep == pc \in {"sidebar", "clicked"} /\ Occurs("session_state.df", trace')

\* The step is the sidebar of the run that follows a change of the filters.
FilterRerun == pc = "sidebar" /\ filters # default_filters

\* The file the sidebar of the run at hand reads.
PipelineInput == IF pc = "clicked" THEN sample_file ELSE uploaded_file

\* The columns the parser and the classifiers add to a frame with rows.
IdentityNames == {IdentityColumns[x] : x \in 1..4}

RiskNames == {"RiskScore", "RiskFlag", "RiskLevel"}

DuvalNames == {"CH4%", "C2H4%", "C2H2%", "DuvalZone"}

\* C21 as stated: the derived fields of a batch are computed once, right
\* after parsing and before the dataset is stored, in the order parser, risk
\* scorer, Duval classifier, ternary classifier, and none is computed again
\* later in the session: not by the run that follows a filter change and not
\* by the rendering of the main content.
C21_ComputedOnceBeforeStore ==
    [][ /\ StoreStep =>
              /\ Before("load_and_parse", "RiskScore", trace')
              /\ Before("RiskScore", "duval_results", trace')
              /\ Before("duval_results", "calculate_ternary_ratios", trace')
              /\ Before("calculate_ternary_ratios", "session_state.df", trace')
        /\ FilterRerun =>
              \A tok \in ClassifyingSteps \cup {"calculate_ternary_ratios"} :
                  ~Occurs(tok, trace')
        /\ pc = "main" => (trace' = trace /\ session_state' = session_state) ]_vars

\* C21 as amended: every run of the script that has a batch (an uploaded file
\* with the label column, or the demo data after the button) computes its
\* derived fields right after parsing and before it stores the dataset, in
\* the order parser, risk score, risk flag, risk level, Duval classifier, and
\* stores the batch with exactly these fields; the ternary classifier is not
\* part of that pass and no ternary field is stored.  The run after a filter
\* change computes the same fields again from the same file and stores an
\* equal dataset, so the stored values do not change until another upload.
\* The ternary ratios are computed after the store, at each rendering of the
\* DGA tab that draws its charts, from the filtered copy, and the rendering
\* leaves the stored dataset as it is.
C21_ComputedEachRun ==
    [][ /\ StoreStep =>
              /\ Before("load_and_parse", "RiskScore", trace')
              /\ Before("RiskScore", "RiskFlag", trace')
              /\ Before("RiskFlag", "RiskLevel", trace')
              /\ Before("RiskLevel", "duval_results", trace')
              /\ Before("duval_results", "concat", trace')
              /\ Before("concat", "session_state.df", trace')
              /\ ~Occurs("calculate_ternary_ratios", trace')
              /\ session_state'["df"] =
                     classify_frame(load_and_parse(PipelineInput).value)
              /\ session_state'["df"].columns \subseteq
                     PipelineInput.columns \cup IdentityNames \cup RiskNames
                         \cup DuvalNames
        /\ FilterRerun => (StoreStep /\ session_state' = session_state)
        /\ pc = "main" =>
              /\ session_state' = session_state
              /\ Occurs("calculate_ternary_ratios", trace')
                     <=> dga_charts_drawn(view'.filtered_df)
              /\ Occurs("calculate_ternary_ratios", trace') =>
                     Before("session_state.df", "calculate_ternary_ratios", trace')
              /\ view'.ternary_fig =
                     IF dga_charts_drawn(view'.filtered_df)
                     THEN create_ternary_plot(view'.filtered_df)
                     ELSE [not_drawn |-> TRUE] ]_vars

\* The run that followed a filter change has rendered its page: it parsed and
\* classified the uploaded file again and stored it, and computed the ternary
\* ratios of the filtered rows afterwards.
C21_Witness ==
    /\ pc = "done"
    /\ filters # default_filters
    /\ trace = << "load_and_parse", "RiskScore", "RiskFlag", "RiskLevel",
                  "duval_results", "concat", "session_state.df",
                  "calculate_ternary_ratios" >>
    /\ "plotted" \in DOMAIN view.ternary_fig
    /\ session_state["df"] = classify_frame(load_and_parse(uploaded_file).value)

demo_classified == classify_frame(df_parsed.value)

\* The session holds the classified demo data.
DemoStored ==
    /\ "df" \in DOMAIN session_state
    /\ session_state["df"] = demo_classified

\* The step is the sidebar of the rerun that st.rerun() started after the
\* demo-data button.
DemoRerun == pc = "sidebar" /\ uploaded_file = None /\ Occurs("st.rerun", trace)

\* C24: when no file is uploaded and the demo-data button is pressed, the run
\* makes one pass over the demo records (parse, risk score, Duval
\* classification) and stores the result in the session, and the rerun that
\* follows goes on to render the main content from that dataset.
C24_DemoRendered ==
    [][ /\ pc = "clicked" =>
              /\ DemoStored'
              /\ Before("load_and_parse", "RiskScore", trace')
              /\ Before("RiskScore", "duval_results", trace')
              /\ Before("duval_results", "session_state.df", trace')
              /\ pc' = "sidebar"
        /\ DemoRerun => (pc' = "main" /\ DemoStored') ]_vars

\* The rerun after the demo-data button has stopped at the end of the sidebar:
\* the demo data are stored and no main content has been rendered.
C24_Witness ==
    /\ pc = "stopped"
    /\ uploaded_file = None
    /\ trace = <<"st.stop">>
    /\ DemoStored
    /\ view = None

====
